---- MODULE Spec2Model ----
(***************************************************************************)
(* badge-photo-gen: the batch generation orchestrator (generateBatch), the *)
(* budget gate (checkBudget, updateBudgetSpent) and the retry executor     *)
(* (retryWithBackoff), as state machines.                                  *)
(*                                                                         *)
(* Money is counted in cents (the provider's price of $0.01 is 1).  A      *)
(* JavaScript number is a record [nan, v]: NaN is a value of its own,      *)
(* every comparison with it is false and every sum with it is NaN.         *)
(* Durations are counted in abstract milliseconds.                         *)
(***************************************************************************)
EXTENDS Integers, Sequences, FiniteSets

VARIABLES
    params,         \* GenerationParams handed to generateBatch
    disk,           \* the configuration file badge-gen.config.yaml
    config,         \* generateBatch: const config (loadFullConfig's result)
    estimatedCost,  \* generateBatch: const estimatedCost
    budgetCheck,    \* generateBatch: const budgetCheck
    pc,             \* position of the caller (generateBatch, or the retry test)
    failure,        \* the error generateBatch rejected with
    events,         \* file-system writes of the run, in order
    apiCalled,      \* provider.generateImage has been invoked in this run
    i,              \* generateBatch: loop index
    results,        \* generateBatch: const results: ImageResult[]
    failed,         \* indices whose catch block ran, with the cause
    manifest,       \* manifest.json in the output directory
    ubConfig,       \* updateBudgetSpent: const config (parsed file)
    ubAmount,       \* updateBudgetSpent: amountSpent
    p2pc,           \* a second invocation's updateBudgetSpent: position
    p2Config,       \* a second invocation's updateBudgetSpent: const config
    p2Amount,       \* a second invocation's updateBudgetSpent: amountSpent
    options,        \* index.ts: the options commander hands to the action
    argv,           \* the options given on the command line
    runs,           \* generateBatch runs that ended before the current one
    p2Run,          \* a second, overlapping generateBatch run: its locals
    env,            \* process.env.STABILITY_API_KEY
    otherDisk,      \* the configuration file at a path given with --config
    exitCode,       \* the code the process exits with
    fnArgs,         \* arguments of a helper function called on its own
    fnResult,       \* what that call returned or threw
    rcfg,           \* retryWithBackoff: config
    rpc,            \* retryWithBackoff: position
    attempt,        \* retryWithBackoff: loop variable
    currentDelay,   \* retryWithBackoff: let currentDelay
    lastError,      \* retryWithBackoff: let lastError
    rresult,        \* retryWithBackoff: value returned or thrown
    calls,          \* invocations of fn by the current retryWithBackoff call
    inFlight,       \* fn promises pending
    waits,          \* delays slept by the current retryWithBackoff call
    fnFailures,     \* rejections of fn seen by the current retryWithBackoff call
    lastThrown      \* the value fn rejected with most recently

vars == <<params, disk, config, estimatedCost, budgetCheck, pc, failure, events,
          apiCalled, i, results, failed, manifest, ubConfig, ubAmount, p2pc,
          p2Config, p2Amount, options, argv, runs, p2Run,
          env, otherDisk, exitCode, fnArgs,
          fnResult, rcfg, rpc, attempt,
          currentDelay, lastError, rresult, calls, inFlight, waits, fnFailures,
          lastThrown>>

batchVars == <<params, disk, config, estimatedCost, budgetCheck, failure, events,
               i, results, failed, manifest, ubConfig,
                   ubAmount, p2pc, p2Config, p2Amount,
                   options, argv, runs, p2Run,
                   env, otherDisk, exitCode, fnArgs, fnResult>>

retryVars == <<rcfg, rpc, attempt, currentDelay, lastError, rresult, calls,
               inFlight, waits, fnFailures, lastThrown>>

----------------------------------------------------------------------------
(* Bounds of the model *)

MaxCount == 3
MaxAttempts == 3

(* Program constants *)

PricePerImage == 1

----------------------------------------------------------------------------
(* JavaScript numbers *)

Num(n) == [nan |-> FALSE, v |-> n]
NaN == [nan |-> TRUE, v |-> 0]

FAdd(a, b) == IF a.nan \/ b.nan THEN NaN ELSE Num(a.v + b.v)
FSub(a, b) == IF a.nan \/ b.nan THEN NaN ELSE Num(a.v - b.v)
FMul(a, b) == IF a.nan \/ b.nan THEN NaN ELSE Num(a.v * b.v)
\* 0/0 is NaN.  A zero divisor occurs only with a zero dividend here
\* (estimateCost(0) = 0), and every other quotient taken is exact.
FDiv(a, b) == IF a.nan \/ b.nan \/ b.v = 0 THEN NaN ELSE Num(a.v \div b.v)
FGeq(a, b) == ~a.nan /\ ~b.nan /\ a.v >= b.v

Min(a, b) == IF a <= b THEN a ELSE b

Undefined == [kind |-> "undefined", msg |-> ""]

\* an option, file field or environment variable: undefined, or a string
Absent == [kind |-> "undefined"]
Str(s) == [kind |-> "string", s |-> s]
NoOptions == [given |-> FALSE]
NoCall == [fn |-> "none"]
NoFailure == [kind |-> "none", msg |-> ""]
NoManifest == [written |-> FALSE]
NoRun == [started |-> FALSE]

----------------------------------------------------------------------------
(* retryWithBackoff (utils/retry.ts) *)

\* Retry policies of the model: maxAttempts 0 leaves the for loop at once.

RetryPolicies ==
    [maxAttempts : 0..MaxAttempts, initialDelayMs : {1, 5},
     maxDelayMs : {2, 4}, backoffMultiplier : {2, 3}]

\* The default policy of the configuration file, one unit = 1000 ms.
BatchPolicies ==
    [maxAttempts : 0..MaxAttempts, initialDelayMs : {1},
     maxDelayMs : {10}, backoffMultiplier : {2}]

Ok(v) == [type |-> "ok", val |-> v]
Throw(v) == [type |-> "throw", val |-> v]
ErrorOf(m) == [kind |-> "Error", msg |-> m]
StringOf(m) == [kind |-> "string", msg |-> m]

\* String(error) of a thrown value
StringConv(e) == IF e.kind = "undefined" THEN "undefined" ELSE e.msg

ToErrorIdentity(e) == e
\* lastError = error instanceof Error ? error : new Error(String(error))
ToError(e) == IF e.kind = "Error" THEN e ELSE ErrorOf(StringConv(e))

IsLastAttemptEarly(a, cfg) == a >= cfg.maxAttempts - 1
\* if (attempt === maxAttempts)
IsLastAttempt(a, cfg) == a = cfg.maxAttempts

InitialDelayClamped(cfg) == Min(cfg.initialDelayMs, cfg.maxDelayMs)
\* let currentDelay = initialDelayMs
InitialDelay(cfg) == cfg.initialDelayMs

NextDelayUncapped(d, cfg) == d * cfg.backoffMultiplier
\* currentDelay = Math.min(currentDelay * backoffMultiplier, maxDelayMs)
NextDelay(d, cfg) == Min(d * cfg.backoffMultiplier, cfg.maxDelayMs)

\* Function entry, up to the first evaluation of the loop condition.  With
\* maxAttempts < 1 the loop body never runs and the trailing
\* `throw lastError!` throws the unassigned variable.
RetryEnter(cfg) ==
    /\ rcfg' = cfg
    /\ attempt' = 1
    /\ currentDelay' = InitialDelay(cfg)
    /\ lastError' = Undefined
    /\ lastThrown' = Undefined
    /\ calls' = 0
    /\ waits' = <<>>
    /\ fnFailures' = 0
    /\ inFlight' = inFlight
    /\ IF 1 <= cfg.maxAttempts
       THEN rpc' = "call" /\ rresult' = Undefined
       ELSE rpc' = "thrown" /\ rresult' = Undefined

AfterCallNotAwaited == "call"
\* return await fn(): the loop is suspended until fn settles
AfterCall == "await"

SleepNeverResolves(ms) == FALSE
\* new Promise((resolve) => setTimeout(resolve, ms)) resolves after ms
SleepResolves(ms) == TRUE

\* return await fn(): the call is made
RetryCall ==
    /\ rpc = "call"
    /\ rpc' = AfterCall
    /\ calls' = calls + 1
    /\ inFlight' = inFlight + 1
    /\ UNCHANGED <<rcfg, attempt, currentDelay, lastError, rresult, waits,
                   fnFailures, lastThrown>>

\* fn settles with outcome o: return on success, else the catch clause
RetrySettle(o) ==
    /\ rpc = "await"
    /\ inFlight' = inFlight - 1
    /\ IF o.type = "ok"
       THEN /\ rpc' = "returned"
            /\ rresult' = o.val
            /\ UNCHANGED <<lastError, lastThrown, fnFailures>>
       ELSE /\ lastThrown' = o.val
            /\ fnFailures' = fnFailures + 1
            /\ lastError' = ToError(o.val)
            /\ IF IsLastAttempt(attempt, rcfg)
               THEN rpc' = "thrown" /\ rresult' = lastError'
               ELSE rpc' = "sleep" /\ rresult' = rresult
    /\ UNCHANGED <<rcfg, attempt, currentDelay, calls, waits>>

\* await sleep(currentDelay); the next delay; attempt++
RetrySleep ==
    /\ rpc = "sleep"
    /\ SleepResolves(currentDelay)
    /\ waits' = Append(waits, currentDelay)
    /\ currentDelay' = NextDelay(currentDelay, rcfg)
    /\ attempt' = attempt + 1
    /\ rpc' = "call"
    /\ UNCHANGED <<rcfg, lastError, rresult, calls, inFlight, fnFailures,
                   lastThrown>>

\* The call has settled and its caller has taken the result: the locals die.
RetryReset ==
    /\ rpc' = "idle"
    /\ attempt' = 0
    /\ currentDelay' = 0
    /\ lastError' = Undefined
    /\ rresult' = Undefined
    /\ calls' = 0
    /\ waits' = <<>>
    /\ fnFailures' = 0
    /\ lastThrown' = Undefined
    /\ UNCHANGED <<rcfg, inFlight>>

----------------------------------------------------------------------------
(* checkBudget, updateBudgetSpent (config/budget.ts) *)

AfterGenAboveThreshold(cfg, est) ==
    LET after == FAdd(cfg.budget.spent, est)
    IN  ~after.nan /\ ~cfg.budget.total.nan
        /\ after.v * 100 > cfg.budget.warnThreshold * cfg.budget.total.v
\* afterGenPercent >= warnThresholdPercent, with the threshold in percent.
\* A division by total = 0 gives Infinity, -Infinity or NaN.
AfterGenAtLeastThreshold(cfg, est) ==
    LET after == FAdd(cfg.budget.spent, est)
        total == cfg.budget.total
        wt == cfg.budget.warnThreshold
    IN  IF after.nan \/ total.nan THEN FALSE
        ELSE IF total.v > 0 THEN after.v * 100 >= wt * total.v
        ELSE IF total.v = 0 THEN after.v > 0
        ELSE after.v * 100 <= wt * total.v

checkBudgetStrict(cfg, est) ==
    LET remaining == FSub(cfg.budget.total, cfg.budget.spent)
        allowed == ~remaining.nan /\ ~est.nan /\ remaining.v > est.v
    IN  [allowed |-> allowed,
         kind |-> IF ~allowed THEN "exceeded"
                  ELSE IF AfterGenAtLeastThreshold(cfg, est) THEN "warning"
                  ELSE "ok"]

\* const remaining = total - spent; const allowed = remaining >= estimatedCost
checkBudget(cfg, est) ==
    LET remaining == FSub(cfg.budget.total, cfg.budget.spent)
        allowed == FGeq(remaining, est)
    IN  [allowed |-> allowed,
         kind |-> IF ~allowed THEN "exceeded"
                  ELSE IF AfterGenAtLeastThreshold(cfg, est) THEN "warning"
                  ELSE "ok"]

SpentAddedUnlessRefund(cfg, amountSpent) ==
    IF ~amountSpent.nan /\ amountSpent.v < 0
    THEN cfg
    ELSE [cfg EXCEPT !.budget.spent = FAdd(@, amountSpent)]
SpentReplaced(cfg, amountSpent) ==
    [cfg EXCEPT !.budget.spent = amountSpent]
\* config.budget.spent += amountSpent
SpentAdded(cfg, amountSpent) ==
    [cfg EXCEPT !.budget.spent = FAdd(@, amountSpent)]

----------------------------------------------------------------------------
(* StabilityAIProvider (providers/stability-ai.ts) *)

\* return count * 0.01
estimateCost(count) == Num(count * PricePerImage)

\* What one generateImage call can settle with: a result carrying the
\* base64 payload, a result whose payload is missing, or an Error naming
\* the HTTP status of the failed request.
ImageData == [kind |-> "result", msg |-> "base64"]
ImageNoData == [kind |-> "result", msg |-> "nodata"]
FatalStatuses == {"400", "401"}
TransientStatuses == {"429", "500"}
ApiError(status) == ErrorOf(status)
ProviderOutcomes ==
    {Ok(ImageData), Ok(ImageNoData)}
        \cup {Throw(ApiError(st)) : st \in FatalStatuses \cup TransientStatuses}

----------------------------------------------------------------------------
(* parseDimension (utils/dimensions.ts), getStylePreset (config/styles.ts) *)

\* Number() of one part of sizeStr.split('x'); a part that is no numeral
\* is NaN and a missing part is undefined, both falsy like 0.
NumberOfPart(part) ==
    CASE part = "900" -> Num(900)
      [] part = "800" -> Num(800)
      [] part = "2100" -> Num(2100)
      [] part = "1500" -> Num(1500)
      [] part = "1" -> Num(1)
      [] part = "2" -> Num(2)
      [] part = "3" -> Num(3)
      [] part = "-5" -> Num(-5)
      [] part = "0" -> Num(0)
      [] part = "" -> Num(0)
      [] OTHER -> NaN

\* if (!width || !height) throw
parseDimensionThrows(parts) ==
    LET width == IF Len(parts) >= 1 THEN NumberOfPart(parts[1]) ELSE NaN
        height == IF Len(parts) >= 2 THEN NumberOfPart(parts[2]) ELSE NaN
    IN  \/ width.nan \/ width.v = 0
        \/ height.nan \/ height.v = 0

\* randomizeDimensions parses minSize, then maxSize
randomizeDimensionsThrows(minSize, maxSize) ==
    parseDimensionThrows(minSize) \/ parseDimensionThrows(maxSize)

Dimension(w, h) == [width |-> w, height |-> h]

\* parseDimension: { width, height }, or the error naming sizeStr
parseDimension(parts) ==
    IF parseDimensionThrows(parts)
    THEN [threw |-> TRUE, message |-> "Invalid dimension format",
          sizeStr |-> parts]
    ELSE [threw |-> FALSE,
          value |-> Dimension(NumberOfPart(parts[1]).v,
                              NumberOfPart(parts[2]).v)]

\* the values of Math.floor(Math.random() * n), Math.random() in [0, 1)
RandomFloorTimes(n) == IF n > 0 THEN 0..(n - 1) ELSE n..0

Abs(x) == IF x >= 0 THEN x ELSE -x

AnyOrientation(d) == TRUE
\* d => d.height >= d.width
IsPortrait(d) == d.height >= d.width

DefaultSquare(supported) == Dimension(1024, 1024)
\* return supportedDimensions[0] || { width: 1024, height: 1024 }
FallbackDimension(supported) ==
    IF supported # <<>> THEN supported[1] ELSE Dimension(1024, 1024)

RECURSIVE ClosestByAreaLastWins(_, _, _)
ClosestByAreaLastWins(prev, rest, targetArea) ==
    IF rest = <<>> THEN prev
    ELSE LET curr == Head(rest)
             prevDiff == Abs(prev.width * prev.height - targetArea)
             currDiff == Abs(curr.width * curr.height - targetArea)
         IN  ClosestByAreaLastWins(IF currDiff <= prevDiff THEN curr ELSE prev,
                                   Tail(rest), targetArea)

\* portraitDimensions.reduce((prev, curr) => currDiff < prevDiff ? curr : prev)
RECURSIVE ClosestByArea(_, _, _)
ClosestByArea(prev, rest, targetArea) ==
    IF rest = <<>> THEN prev
    ELSE LET curr == Head(rest)
             prevDiff == Abs(prev.width * prev.height - targetArea)
             currDiff == Abs(curr.width * curr.height - targetArea)
         IN  ClosestByArea(IF currDiff < prevDiff THEN curr ELSE prev,
                           Tail(rest), targetArea)

\* randomizeDimensions after the two parses, with the two random offsets
\* drawn
randomizeDimensions(min, max, supported, dw, dh) ==
    LET randomWidth == dw + min.width
        randomHeight == dh + min.height
        portraitDimensions == SelectSeq(supported, IsPortrait)
    IN  IF Len(portraitDimensions) = 0 THEN FallbackDimension(supported)
        ELSE ClosestByArea(Head(portraitDimensions), Tail(portraitDimensions),
                           randomWidth * randomHeight)

\* arr[Math.floor(Math.random() * arr.length)], for every draw
randomChoice(arr) == {arr[k + 1] : k \in RandomFloorTimes(Len(arr))}

AGE_OPTIONS == <<"young adult", "middle-aged", "senior">>
ETHNICITY_OPTIONS ==
    <<"Asian", "Black", "Caucasian", "Hispanic", "Middle Eastern",
      "South Asian">>
MALE_FEATURES ==
    <<"with glasses", "without glasses", "with beard", "clean-shaven",
      "with mustache">>
FEMALE_FEATURES ==
    <<"with glasses", "without glasses", "with long hair", "with short hair">>

FeaturesOfEither(gender) == MALE_FEATURES \o FEMALE_FEATURES
\* gender === 'male' ? MALE_FEATURES : FEMALE_FEATURES
FeaturesOf(gender) == IF gender = "male" THEN MALE_FEATURES ELSE FEMALE_FEATURES

\* `${age} ${ethnicity} ${gender} ${features}`, as its four parts, for every
\* draw
generateDiversityAttributes(gender) ==
    {<<age, ethnicity, gender, features>> :
        age \in randomChoice(AGE_OPTIONS),
        ethnicity \in randomChoice(ETHNICITY_OPTIONS),
        features \in randomChoice(FeaturesOf(gender))}

STYLE_PRESETS ==
    {"bitmoji", "pixar", "corporate", "vector-art", "anime", "pixel-art"}
\* STYLE_PRESETS is an object literal: a lookup by name also finds what the
\* object inherits from Object.prototype, and those values are truthy.
InheritedKeys == {"constructor", "toString"}

\* const preset = STYLE_PRESETS[styleName]; if (!preset) throw
getStylePresetThrows(styleName) ==
    styleName \notin STYLE_PRESETS \cup InheritedKeys

----------------------------------------------------------------------------
(* generateBatch (generators/batch.ts) *)

\* Inputs of the model
WarnThresholds == {80}
StyleNames == {"bitmoji", "watercolor", "constructor"}

Configs ==
    [apiKey : {Str("sk-key")},
     budget : [total : {Num(3), Num(5)},
               spent : {Num(0), Num(2), Num(3)},
               warnThreshold : WarnThresholds],
     retry : BatchPolicies,
     gender : [maleRatio : {50, 70}]]

\* generateBatch called with a GenerationParams of its own, as its tests do
Params ==
    [count : 0..MaxCount, style : StyleNames, format : {"png"},
     outputDir : {"./badges"}, minSize : {<<"900", "800">>, <<"900">>},
     maxSize : {<<"2100", "1500">>},
     apiKey : {"sk-key"}, budget : {Absent}, dryRun : {FALSE}]

IdleParams ==
    [count |-> 0, style |-> "bitmoji", format |-> "png",
     outputDir |-> "./badges", minSize |-> <<"900", "800">>,
     maxSize |-> <<"2100", "1500">>, apiKey |-> "sk-key", budget |-> Absent,
     dryRun |-> FALSE]

NoConfig == [loaded |-> FALSE]

Fail(kind, msg) ==
    /\ pc' = "failed"
    /\ failure' = [kind |-> kind, msg |-> msg]

Event(op, idx) == [op |-> op, idx |-> idx]

MaleCountRoundedDown(count) == count \div 2
\* const maleCount = Math.ceil(params.count / 2)
MaleCount(count) == (count + 1) \div 2
\* const femaleCount = Math.floor(params.count / 2)
FemaleCount(count) == count \div 2
GenderByConfiguredRatio(idx, count) ==
    IF idx * 100 < config.gender.maleRatio * count THEN "male" ELSE "female"
\* const gender = i < maleCount ? 'male' : 'female'
GenderOf(idx, count) == IF idx < MaleCount(count) THEN "male" ELSE "female"

ChargeFullEstimate(res, est, count) == est
\* results.length * (estimatedCost / params.count)
ActualCost(res, est, count) == FMul(Num(Len(res)), FDiv(est, Num(count)))

AnyResultAccepted(r) == TRUE
\* const base64Data = (result as any).base64Data; if (!base64Data) throw
HasImageData(r) == r.msg # "nodata"

GateNeverThrows(bc) == FALSE
\* if (!budgetCheck.allowed) throw new Error(budgetCheck.message)
GateThrows(bc) == ~bc.allowed

BreakOnAnyFailure(cfg, res, est, count) == TRUE
BreakOnFullEstimate(cfg, res, est, count) ==
    FGeq(FAdd(cfg.budget.spent, est), cfg.budget.total)
\* currentSpent = config.budget.spent + results.length * (estimatedCost / count)
\* if (currentSpent >= config.budget.total) break
ShouldBreak(cfg, res, est, count) ==
    FGeq(FAdd(cfg.budget.spent, ActualCost(res, est, count)), cfg.budget.total)

\* const config = await loadFullConfig(configPath): read and parse, or the
\* wrapped error
LoadFullConfig ==
    /\ pc = "start"
    /\ \E ok \in BOOLEAN :
          IF ok
          THEN /\ config' = disk
               /\ pc' = "gate"
               /\ UNCHANGED failure
          ELSE /\ Fail("config", "Failed to load config file")
               /\ UNCHANGED config
    /\ UNCHANGED <<params, disk, estimatedCost, budgetCheck, events, apiCalled,
                   i, results, failed, manifest, ubConfig,
                   ubAmount, p2pc, p2Config, p2Amount,
                   options, argv, runs, p2Run,
                   env, otherDisk, exitCode, fnArgs, fnResult>>
    /\ UNCHANGED retryVars

\* STEP A: estimateCost, checkBudget, throw when not allowed
BudgetGate ==
    /\ pc = "gate"
    /\ estimatedCost' = estimateCost(params.count)
    /\ budgetCheck' = checkBudget(config, estimatedCost')
    /\ IF GateThrows(budgetCheck')
       THEN Fail("budget", budgetCheck'.kind)
       ELSE pc' = "mkdir" /\ UNCHANGED failure
    /\ UNCHANGED <<params, disk, config, events, apiCalled, i, results, failed,
                   manifest, ubConfig,
                   ubAmount, p2pc, p2Config, p2Amount,
                   options, argv, runs, p2Run,
                   env, otherDisk, exitCode, fnArgs, fnResult>>
    /\ UNCHANGED retryVars

\* STEP B, C: the gender split and the three fs.mkdir calls, n of which
\* succeed
CreateDirectories ==
    /\ pc = "mkdir"
    /\ \E n \in 0..3 :
          /\ events' = IF n >= 1 THEN Append(events, Event("mkdir", n))
                       ELSE events
          /\ IF n = 3
             THEN pc' = "style" /\ UNCHANGED failure
             ELSE Fail("mkdir", "mkdir failed")
    /\ UNCHANGED <<params, disk, config, estimatedCost, budgetCheck, apiCalled,
                   i, results, failed, manifest, ubConfig,
                   ubAmount, p2pc, p2Config, p2Amount,
                   options, argv, runs, p2Run,
                   env, otherDisk, exitCode, fnArgs, fnResult>>
    /\ UNCHANGED retryVars

\* STEP D, before the loop: results = [], getStylePreset, supported sizes
PrepareLoop ==
    /\ pc = "style"
    /\ IF getStylePresetThrows(params.style)
       THEN Fail("style", "Unknown style")
       ELSE pc' = "loop" /\ UNCHANGED failure
    /\ i' = 0
    /\ results' = <<>>
    /\ UNCHANGED <<params, disk, config, estimatedCost, budgetCheck, events,
                   apiCalled, failed, manifest, ubConfig,
                   ubAmount, p2pc, p2Config, p2Amount,
                   options, argv, runs, p2Run,
                   env, otherDisk, exitCode, fnArgs, fnResult>>
    /\ UNCHANGED retryVars

\* The catch clause of the loop body: log, the running-budget check, then
\* break or continue with i++
CatchBlock(cause) ==
    /\ failed' = Append(failed, [index |-> i, cause |-> cause])
    /\ IF ShouldBreak(config, results, estimatedCost, params.count)
       THEN pc' = "manifest" /\ i' = i
       ELSE pc' = "loop" /\ i' = i + 1

\* One loop iteration up to the retryWithBackoff call: gender, attributes,
\* prompt, randomizeDimensions (which may throw, inside the try)
BeginImage ==
    /\ pc = "loop"
    /\ i < params.count
    /\ IF randomizeDimensionsThrows(params.minSize, params.maxSize)
       THEN /\ CatchBlock("dims")
            /\ UNCHANGED retryVars
       ELSE /\ RetryEnter(config.retry)
            /\ pc' = "retry"
            /\ UNCHANGED <<i, failed>>
    /\ UNCHANGED <<params, disk, config, estimatedCost, budgetCheck, failure,
                   events, apiCalled, results, manifest, ubConfig,
                   ubAmount, p2pc, p2Config, p2Amount,
                   options, argv, runs, p2Run,
                   env, otherDisk, exitCode, fnArgs, fnResult>>

\* provider.generateImage is called by retryWithBackoff
GenerateImageCall ==
    /\ pc = "retry"
    /\ RetryCall
    /\ apiCalled' = TRUE
    /\ UNCHANGED pc
    /\ UNCHANGED batchVars

\* the call settles
GenerateImageSettle ==
    /\ pc = "retry"
    /\ \E o \in ProviderOutcomes : RetrySettle(o)
    /\ UNCHANGED <<pc, apiCalled>>
    /\ UNCHANGED batchVars

\* the wait between two attempts
BackoffSleep ==
    /\ pc = "retry"
    /\ RetrySleep
    /\ UNCHANGED <<pc, apiCalled>>
    /\ UNCHANGED batchVars

\* retryWithBackoff returned: the base64 check, the file save by sharp,
\* results.push
ImageReturned ==
    /\ pc = "retry"
    /\ rpc = "returned"
    /\ IF ~HasImageData(rresult)
       THEN /\ CatchBlock("nodata")
            /\ UNCHANGED <<events, results>>
       ELSE \E saved \in BOOLEAN :
              IF saved
              THEN /\ events' = Append(events, Event("image", i))
                   /\ results' = Append(results,
                         [index |-> i, gender |-> GenderOf(i, params.count)])
                   /\ i' = i + 1
                   /\ pc' = "loop"
                   /\ UNCHANGED failed
              ELSE /\ CatchBlock("save")
                   /\ UNCHANGED <<events, results>>
    /\ RetryReset
    /\ UNCHANGED <<params, disk, config, estimatedCost, budgetCheck, failure,
                   apiCalled, manifest, ubConfig,
                   ubAmount, p2pc, p2Config, p2Amount,
                   options, argv, runs, p2Run,
                   env, otherDisk, exitCode, fnArgs, fnResult>>

\* retryWithBackoff threw: the catch clause
ImageThrown ==
    /\ pc = "retry"
    /\ rpc = "thrown"
    /\ CatchBlock("retry")
    /\ RetryReset
    /\ UNCHANGED <<params, disk, config, estimatedCost, budgetCheck, failure,
                   events, apiCalled, results, manifest, ubConfig,
                   ubAmount, p2pc, p2Config, p2Amount,
                   options, argv, runs, p2Run,
                   env, otherDisk, exitCode, fnArgs, fnResult>>

\* the loop condition fails
LoopExit ==
    /\ pc = "loop"
    /\ ~(i < params.count)
    /\ pc' = "manifest"
    /\ UNCHANGED batchVars
    /\ UNCHANGED apiCalled
    /\ UNCHANGED retryVars

createManifestOfRequested(res, est, count) ==
    [written |-> TRUE,
     totalCount |-> count,
     maleCount |-> MaleCount(count),
     femaleCount |-> FemaleCount(count),
     costUsd |-> est,
     images |-> res]
\* const metadata = {...}; createManifest(metadata, results)
createManifest(res, est, count) ==
    [written |-> TRUE,
     totalCount |-> Len(res),
     maleCount |-> Cardinality({k \in 1..Len(res) : res[k].gender = "male"}),
     femaleCount |-> Cardinality({k \in 1..Len(res) : res[k].gender = "female"}),
     costUsd |-> ActualCost(res, est, count),
     images |-> res]

ManifestErrorSwallowed(ok) == "ubRead"
\* await saveManifest(...): a rejection leaves generateBatch
AfterSaveManifest(ok) == IF ok THEN "ubRead" ELSE "failed"

\* STEP E: build the metadata and save manifest.json (mkdir, writeFile)
SaveManifest ==
    /\ pc = "manifest"
    /\ \E ok \in BOOLEAN :
          /\ pc' = AfterSaveManifest(ok)
          /\ IF ok
             THEN /\ manifest' = createManifest(results, estimatedCost,
                                                params.count)
                  /\ events' = Append(events, Event("manifest", Len(results)))
                  /\ UNCHANGED failure
             ELSE /\ failure' = [kind |-> "manifest",
                                 msg |-> "Failed to save manifest"]
                  /\ UNCHANGED <<manifest, events>>
    /\ UNCHANGED <<params, disk, config, estimatedCost, budgetCheck, apiCalled,
                   i, results, failed, ubConfig,
                   ubAmount, p2pc, p2Config, p2Amount,
                   options, argv, runs, p2Run,
                   env, otherDisk, exitCode, fnArgs, fnResult>>
    /\ UNCHANGED retryVars

ConfigReadErrorSwallowed(ok) == IF ok THEN "ubWrite" ELSE "done"
\* const configContent = await fs.readFile(...); YAML.parse: a rejection
\* leaves updateBudgetSpent and its caller
AfterConfigRead(ok) == IF ok THEN "ubWrite" ELSE "failed"

\* updateBudgetSpent(configPath, amountSpent): fs.readFile and YAML.parse
ReadConfigFor(amountSpent) ==
    /\ ubAmount' = amountSpent
    /\ \E ok \in BOOLEAN :
          /\ pc' = AfterConfigRead(ok)
          /\ IF ok
             THEN /\ ubConfig' = disk
                  /\ UNCHANGED failure
             ELSE /\ failure' = [kind |-> "configRead",
                                 msg |-> "readFile or parse failed"]
                  /\ UNCHANGED ubConfig
    /\ UNCHANGED <<params, disk, config, estimatedCost, budgetCheck, events,
                   apiCalled, i, results, failed, manifest, p2pc, p2Config,
                   p2Amount,
                   options, argv, runs, p2Run,
                   env, otherDisk, exitCode, fnArgs, fnResult>>
    /\ UNCHANGED retryVars

\* STEP F: const actualCost = ...; await updateBudgetSpent(configPath,
\* actualCost), up to the file being read
UpdateBudgetRead ==
    /\ pc = "ubRead"
    /\ ReadConfigFor(ActualCost(results, estimatedCost, params.count))

\* STEP F, updateBudgetSpent: spent += amountSpent, YAML.stringify,
\* fs.writeFile; then the summary is logged and generateBatch returns
UpdateBudgetWrite ==
    /\ pc = "ubWrite"
    /\ \E ok \in BOOLEAN :
          IF ok
          THEN /\ disk' = SpentAdded(ubConfig, ubAmount)
               /\ events' = Append(events, Event("config", Len(results)))
               /\ pc' = "done"
               /\ UNCHANGED failure
          ELSE /\ Fail("configWrite", "writeFile failed")
               /\ UNCHANGED <<disk, events>>
    /\ UNCHANGED <<params, config, estimatedCost, budgetCheck, apiCalled, i,
                   results, failed, manifest, ubConfig,
                   ubAmount, p2pc, p2Config, p2Amount,
                   options, argv, runs, p2Run,
                   env, otherDisk, exitCode, fnArgs, fnResult>>
    /\ UNCHANGED retryVars

\* no command line, no helper call
CliIdleInit ==
    /\ options = NoOptions
    /\ argv = NoOptions
    /\ env = Absent
    /\ otherDisk = NoConfig
    /\ exitCode = 0
    /\ fnArgs = NoCall
    /\ fnResult = NoCall

\* a single generateBatch run, no run before it and none beside it
OneRunInit ==
    /\ runs = 0
    /\ p2Run = NoRun

RetryIdleInit ==
    /\ rpc = "idle"
    /\ attempt = 0
    /\ currentDelay = 0
    /\ lastError = Undefined
    /\ rresult = Undefined
    /\ calls = 0
    /\ inFlight = 0
    /\ waits = <<>>
    /\ fnFailures = 0
    /\ lastThrown = Undefined

Init ==
    /\ params \in Params
    /\ disk \in Configs
    /\ config = NoConfig
    /\ estimatedCost = Num(0)
    /\ budgetCheck = [allowed |-> FALSE, kind |-> "none"]
    /\ pc = "start"
    /\ failure = NoFailure
    /\ events = <<>>
    /\ apiCalled = FALSE
    /\ i = 0
    /\ results = <<>>
    /\ failed = <<>>
    /\ manifest = NoManifest
    /\ ubConfig = NoConfig
    /\ ubAmount = Num(0)
    /\ p2pc = "none"
    /\ p2Config = NoConfig
    /\ p2Amount = Num(0)
    /\ CliIdleInit
    /\ rcfg = disk.retry
    /\ RetryIdleInit
    /\ OneRunInit

Next ==
    \/ LoadFullConfig
    \/ BudgetGate
    \/ CreateDirectories
    \/ PrepareLoop
    \/ BeginImage
    \/ GenerateImageCall
    \/ GenerateImageSettle
    \/ BackoffSleep
    \/ ImageReturned
    \/ ImageThrown
    \/ LoopExit
    \/ SaveManifest
    \/ UpdateBudgetRead
    \/ UpdateBudgetWrite

Spec == Init /\ [][Next]_vars

\* The run is one chain of awaited steps: the event loop runs each
\* continuation once its promise settles, and every file operation, provider
\* request and timer is taken to settle.
FairSpec == Init /\ [][Next]_vars /\ WF_vars(Next)

----------------------------------------------------------------------------
(* retryWithBackoff called with a mock operation, as its tests call it *)

MockValue == [kind |-> "value", msg |-> "success"]
MockOutcomes ==
    {Ok(MockValue),
     Throw(ErrorOf("Attempt failed")), Throw(ErrorOf("Always fails")),
     Throw(StringOf("string error")), Throw(StringOf("other string"))}

\* const promise = retryWithBackoff(fn, config)
TestInvoke ==
    /\ pc = "test"
    /\ RetryEnter(rcfg)
    /\ pc' = "testAwait"
    /\ UNCHANGED apiCalled
    /\ UNCHANGED batchVars

\* fn is called
TestFnCall ==
    /\ pc = "testAwait"
    /\ RetryCall
    /\ UNCHANGED <<pc, apiCalled>>
    /\ UNCHANGED batchVars

\* fn resolves or rejects (mockResolvedValue, mockRejectedValue)
TestFnSettle ==
    /\ pc = "testAwait"
    /\ \E o \in MockOutcomes : RetrySettle(o)
    /\ UNCHANGED <<pc, apiCalled>>
    /\ UNCHANGED batchVars

\* the fake timers run the pending sleep
TestAdvanceTimers ==
    /\ pc = "testAwait"
    /\ RetrySleep
    /\ UNCHANGED <<pc, apiCalled>>
    /\ UNCHANGED batchVars

RetryInit ==
    /\ params = IdleParams
    /\ disk = NoConfig
    /\ config = NoConfig
    /\ estimatedCost = Num(0)
    /\ budgetCheck = [allowed |-> FALSE, kind |-> "none"]
    /\ pc = "test"
    /\ failure = NoFailure
    /\ events = <<>>
    /\ apiCalled = FALSE
    /\ i = 0
    /\ results = <<>>
    /\ failed = <<>>
    /\ manifest = NoManifest
    /\ ubConfig = NoConfig
    /\ ubAmount = Num(0)
    /\ p2pc = "none"
    /\ p2Config = NoConfig
    /\ p2Amount = Num(0)
    /\ CliIdleInit
    /\ rcfg \in RetryPolicies
    /\ RetryIdleInit
    /\ OneRunInit

RetryNext ==
    \/ TestInvoke
    \/ TestFnCall
    \/ TestFnSettle
    \/ TestAdvanceTimers

RetrySpec == RetryInit /\ [][RetryNext]_vars

----------------------------------------------------------------------------
(* Properties *)

EventsOf(op) == {k \in 1..Len(events) : events[k].op = op}
ConfigWrites == Cardinality(EventsOf("config"))
GateEvaluated == pc \notin {"start", "gate"} /\ failure.kind # "config"
PersistenceFailures == {"manifest", "configRead", "configWrite"}
LoopEnded ==
    \/ pc \in {"manifest", "ubRead", "ubWrite", "done"}
    \/ pc = "failed" /\ failure.kind \in PersistenceFailures
RetrySettled == pc = "testAwait" /\ rcfg.maxAttempts >= 1

RECURSIVE Pow(_, _)
Pow(b, e) == IF e = 0 THEN 1 ELSE b * Pow(b, e - 1)

\* C1: when the pre-flight checkBudget returns allowed = false, generateBatch
\* rejects with the "exceeded" budget message and the run has created no
\* directory, saved no file, called generateImage not once, written no
\* manifest and left the configuration file as it was loaded.
C1_DeniedRunProducesNothing ==
    (GateEvaluated /\ ~budgetCheck.allowed) =>
        /\ pc = "failed"
        /\ failure = [kind |-> "budget", msg |-> "exceeded"]
        /\ events = <<>>
        /\ ~apiCalled
        /\ ~manifest.written
        /\ disk = config

C1_Witness ==
    /\ pc = "failed"
    /\ failure.kind = "budget"
    /\ params.count >= 1
    /\ config.budget.spent.v < config.budget.total.v

\* C2: checkBudget allows exactly when spent + estimatedCost does not exceed
\* total; an estimate equal to the remaining budget is allowed and a positive
\* estimate with nothing remaining is denied.
C2_AllowedIffCovered ==
    GateEvaluated =>
        LET total == config.budget.total.v
            spent == config.budget.spent.v
            est == params.count * PricePerImage
        IN  /\ budgetCheck.allowed <=> (spent + est <= total)
            /\ (est = total - spent) => budgetCheck.allowed
            /\ (est > 0 /\ total - spent = 0) => ~budgetCheck.allowed

C2_Witness ==
    /\ GateEvaluated
    /\ budgetCheck.allowed
    /\ params.count >= 1
    /\ config.budget.total.v - config.budget.spent.v
          = params.count * PricePerImage

\* C3: when the loop has ended and exactly one index failed, by exhausted
\* retries, the loop went through every index, results holds the other
\* count - 1 images, the manifest written counts count - 1 images without
\* the failed index, and generateBatch can only fail on persistence.
C3_OneExhaustedIndexIsSkipped ==
    (LoopEnded /\ Len(failed) = 1 /\ failed[1].cause = "retry") =>
        /\ i = params.count
        /\ Len(results) = params.count - 1
        /\ \A k \in 1..Len(results) : results[k].index # failed[1].index
        /\ manifest.written =>
              /\ manifest.totalCount = params.count - 1
              /\ \A k \in 1..Len(manifest.images) :
                    manifest.images[k].index # failed[1].index
        /\ pc = "failed" => failure.kind \in PersistenceFailures

C3_Witness ==
    /\ pc = "done"
    /\ Len(failed) = 1
    /\ failed[1].cause = "retry"
    /\ failed[1].index = 1
    /\ params.count = 3
    /\ manifest.written
    /\ manifest.totalCount = 2

\* C4: with maxAttempts >= 1 the operation is never invoked more than
\* maxAttempts times; the call rejects only after maxAttempts invocations
\* that all failed, with the failure of the last of them; and it has
\* rejected once maxAttempts invocations have all failed.
C4_ExactlyMaxAttemptsCalls ==
    RetrySettled =>
        /\ calls <= rcfg.maxAttempts
        /\ rpc = "thrown" =>
              /\ calls = rcfg.maxAttempts
              /\ fnFailures = rcfg.maxAttempts
              /\ rresult.msg = lastThrown.msg
              /\ lastThrown.kind = "Error" => rresult = lastThrown
        /\ (fnFailures = rcfg.maxAttempts /\ rpc # "await") => rpc = "thrown"
        /\ rpc = "returned" => fnFailures < calls

C4_Witness ==
    /\ RetrySettled
    /\ rpc = "thrown"
    /\ calls = 3
    /\ lastThrown = ErrorOf("Always fails")

\* C5 as stated: after k < maxAttempts failures and a success the operation
\* was invoked k + 1 times, the success value is returned, and wait j is
\* initialDelay * multiplier^(j-1) capped at maxDelay, for every j in 1..k.
C5_EveryWaitCapped ==
    (RetrySettled /\ rpc = "returned") =>
        /\ calls = fnFailures + 1
        /\ rresult = MockValue
        /\ Len(waits) = fnFailures
        /\ \A j \in 1..Len(waits) :
              waits[j] = Min(rcfg.initialDelayMs
                                * Pow(rcfg.backoffMultiplier, j - 1),
                             rcfg.maxDelayMs)

\* C5, amended: the same, but the first wait is initialDelay itself, also
\* when it exceeds maxDelay; the cap applies from the second wait on.  No
\* call is pending or made after the success.
C5_WaitsAfterFirstCapped ==
    (RetrySettled /\ rpc = "returned") =>
        /\ fnFailures < rcfg.maxAttempts
        /\ calls = fnFailures + 1
        /\ inFlight = 0
        /\ rresult = MockValue
        /\ Len(waits) = fnFailures
        /\ \A j \in 1..Len(waits) :
              waits[j] = IF j = 1 THEN rcfg.initialDelayMs
                         ELSE Min(rcfg.initialDelayMs
                                     * Pow(rcfg.backoffMultiplier, j - 1),
                                  rcfg.maxDelayMs)

C5_Witness ==
    /\ RetrySettled
    /\ rpc = "returned"
    /\ fnFailures = 2
    /\ waits[1] = rcfg.initialDelayMs
    /\ waits[2] = rcfg.maxDelayMs
    /\ waits[2] < rcfg.initialDelayMs * rcfg.backoffMultiplier

\* C6 as stated: when all attempts fail the call rejects with the very
\* value the last attempt threw, whatever its type.
C6_RejectsWithThrownValue ==
    (RetrySettled /\ rpc = "thrown") => rresult = lastThrown

\* C6, amended: an Error thrown by the last attempt is rejected with
\* unchanged; any other thrown value is replaced by a new Error whose
\* message is String(value), so a thrown string is the message of the Error.
C6_RejectsWithErrorOfThrown ==
    (RetrySettled /\ rpc = "thrown") =>
        IF lastThrown.kind = "Error"
        THEN rresult = lastThrown
        ELSE rresult = [kind |-> "Error", msg |-> lastThrown.msg]

C6_Witness ==
    /\ RetrySettled
    /\ rpc = "thrown"
    /\ lastThrown = StringOf("string error")
    /\ rresult.kind = "Error"

\* C7 as stated: every run that reached Finalizing and has ended wrote the
\* configuration file exactly once.
C7_WrittenOnceWheneverFinalizing ==
    (pc \in {"done", "failed"} /\ LoopEnded) => ConfigWrites = 1

\* C7, amended: a run that completes Finalizing without a persistence
\* failure writes the configuration file exactly once, as its last write,
\* after the loop and the manifest; the write sets budget.spent to the value
\* loaded plus results.length * (estimatedCost / count), the manifest's
\* costUsd, also when results is empty.  A run whose manifest save or
\* configuration read or write fails does not write the file, and no run
\* writes it during the loop or more than once.
C7_WrittenOnceWhenFinalizingCompletes ==
    LET amount == FMul(Num(Len(results)),
                       FDiv(estimatedCost, Num(params.count)))
    IN  /\ ConfigWrites <= 1
        /\ pc = "done" => ConfigWrites = 1
        /\ ConfigWrites = 1 =>
              /\ pc = "done"
              /\ events[Len(events)].op = "config"
              /\ manifest.written
              /\ manifest.costUsd = amount
              /\ disk.budget.spent = FAdd(config.budget.spent, amount)
        /\ (pc = "failed" \/ pc \in {"loop", "retry"}) => ConfigWrites = 0

C7_Witness ==
    /\ pc = "done"
    /\ ConfigWrites = 1
    /\ Len(results) = 1
    /\ params.count = 3
    /\ disk.budget.spent.v = config.budget.spent.v + PricePerImage

\* C8: a run that ended with zero ImageResults leaves the persisted
\* budget.spent at the value loaded at the start of the run.
C8_EmptyRunKeepsSpent ==
    (pc = "done" /\ Len(results) = 0) =>
        disk.budget.spent = config.budget.spent

\* C9: in the order of the run's writes every image file precedes the
\* manifest and the manifest precedes the configuration write; a failed
\* manifest save makes generateBatch fail with that error, without a
\* configuration write, with budget.spent as loaded and with the image files
\* of results still the files written.
C9_ImagesThenManifestThenBudget ==
    /\ \A a \in EventsOf("manifest") : \A b \in EventsOf("image") : b < a
    /\ \A a \in EventsOf("config") :
          /\ EventsOf("manifest") # {}
          /\ \A b \in EventsOf("manifest") : b < a
    /\ manifest.written <=> EventsOf("manifest") # {}
    /\ failure.kind = "manifest" =>
          /\ pc = "failed"
          /\ ~manifest.written
          /\ ConfigWrites = 0
          /\ disk.budget.spent = config.budget.spent
          /\ {events[k].idx : k \in EventsOf("image")}
                = {results[k].index : k \in 1..Len(results)}

C9_Witness ==
    /\ pc = "failed"
    /\ failure.kind = "manifest"
    /\ Len(results) = 2
    /\ Cardinality(EventsOf("image")) = 2

\* C10: a generateImage call that failed with 400 or 401 is not retried:
\* while the same image is being generated no wait and no further call
\* follows such a failure.
C10_FatalErrorNotRetried ==
    (pc = "retry" /\ rpc \in {"sleep", "call", "await"} /\ fnFailures >= 1) =>
        lastThrown.msg \notin FatalStatuses

----------------------------------------------------------------------------
(* updateBudgetSpent called on its own, as its tests call it, by one caller
   and by two callers at the same time *)

Amounts == {Num(-2), Num(0), Num(3)}

\* await updateBudgetSpent(configPath, amount), up to the file being read
TestUpdateRead ==
    /\ pc = "ubTest"
    /\ \E a \in Amounts : ReadConfigFor(a)

\* the second caller: fs.readFile and YAML.parse
OtherUpdateRead ==
    /\ p2pc = "ubTest"
    /\ \E a \in Amounts : \E ok \in BOOLEAN :
          /\ p2Amount' = a
          /\ IF ok
             THEN p2Config' = disk /\ p2pc' = "ubWrite"
             ELSE p2Config' = p2Config /\ p2pc' = "failed"
    /\ UNCHANGED <<params, disk, config, estimatedCost, budgetCheck, pc,
                   failure, events, apiCalled, i, results, failed, manifest,
                   ubConfig, ubAmount,
                   options, argv, runs, p2Run,
                   env, otherDisk, exitCode, fnArgs, fnResult>>
    /\ UNCHANGED retryVars

\* the second caller: spent += amountSpent, YAML.stringify, fs.writeFile
OtherUpdateWrite ==
    /\ p2pc = "ubWrite"
    /\ \E ok \in BOOLEAN :
          IF ok
          THEN /\ disk' = SpentAdded(p2Config, p2Amount)
               /\ events' = Append(events, Event("config2", 0))
               /\ p2pc' = "done"
          ELSE /\ p2pc' = "failed"
               /\ UNCHANGED <<disk, events>>
    /\ UNCHANGED <<params, config, estimatedCost, budgetCheck, pc, failure,
                   apiCalled, i, results, failed, manifest, ubConfig, ubAmount,
                   p2Config, p2Amount,
                   options, argv, runs, p2Run,
                   env, otherDisk, exitCode, fnArgs, fnResult>>
    /\ UNCHANGED retryVars

UpdateInit ==
    /\ params = IdleParams
    /\ disk \in Configs
    /\ config = NoConfig
    /\ estimatedCost = Num(0)
    /\ budgetCheck = [allowed |-> FALSE, kind |-> "none"]
    /\ pc = "ubTest"
    /\ failure = NoFailure
    /\ events = <<>>
    /\ apiCalled = FALSE
    /\ i = 0
    /\ results = <<>>
    /\ failed = <<>>
    /\ manifest = NoManifest
    /\ ubConfig = NoConfig
    /\ ubAmount = Num(0)
    /\ p2pc = "none"
    /\ p2Config = NoConfig
    /\ p2Amount = Num(0)
    /\ CliIdleInit
    /\ rcfg = disk.retry
    /\ RetryIdleInit
    /\ OneRunInit

UpdateNext ==
    \/ TestUpdateRead
    \/ UpdateBudgetWrite

UpdateSpec == UpdateInit /\ [][UpdateNext]_vars

RaceInit ==
    /\ params = IdleParams
    /\ disk \in Configs
    /\ config = NoConfig
    /\ estimatedCost = Num(0)
    /\ budgetCheck = [allowed |-> FALSE, kind |-> "none"]
    /\ pc = "ubTest"
    /\ failure = NoFailure
    /\ events = <<>>
    /\ apiCalled = FALSE
    /\ i = 0
    /\ results = <<>>
    /\ failed = <<>>
    /\ manifest = NoManifest
    /\ ubConfig = NoConfig
    /\ ubAmount = Num(0)
    /\ p2pc = "ubTest"
    /\ p2Config = NoConfig
    /\ p2Amount = Num(0)
    /\ CliIdleInit
    /\ rcfg = disk.retry
    /\ RetryIdleInit
    /\ OneRunInit

RaceNext ==
    \/ TestUpdateRead
    \/ UpdateBudgetWrite
    \/ OtherUpdateRead
    \/ OtherUpdateWrite

RaceSpec == RaceInit /\ [][RaceNext]_vars

----------------------------------------------------------------------------
(* C11: a malformed minSize or maxSize makes the run fail during setup,
   before the generation loop: no image index is attempted, and no manifest
   write or budget write-back takes place.
   The code parses the sizes inside the loop's try block, once per index, so
   the parse error is caught as that index's failure. *)
C11_MalformedSizeFailsBeforeLoop ==
    (pc \notin {"start", "gate"}
       /\ randomizeDimensionsThrows(params.minSize, params.maxSize))
    => /\ failed = <<>>
       /\ ~manifest.written
       /\ ConfigWrites = 0

(* C12: when an image index fails, the loop breaks exactly when budget.spent
   as loaded at the start of the run plus results.length *
   (estimatedCost / count) is at least budget.total, and otherwise goes on
   to the next index; the loaded configuration is not read again. *)
C12_BreakExactlyWhenRunningEstimateReachesTotal ==
    [][Len(failed') = Len(failed) + 1
         => /\ IF FGeq(FAdd(config.budget.spent,
                            FMul(Num(Len(results)),
                                 FDiv(estimatedCost, Num(params.count)))),
                       config.budget.total)
               THEN pc' = "manifest" /\ i' = i
               ELSE pc' = "loop" /\ i' = i + 1
            /\ config' = config
            /\ results' = results]_vars

\* an index failed and the next index is being attempted
C12_Witness ==
    /\ pc = "retry"
    /\ calls >= 1
    /\ failed # <<>>
    /\ failed[Len(failed)].index = i - 1

(* C13: every run that enters the generation loop eventually leaves it and
   reaches Finalizing (manifest assembly and save), whether every index was
   gone through or the loop broke early, and also when results is empty. *)
C13_LoopLeadsToFinalizing == (pc \in {"loop", "retry"}) ~> (pc = "manifest")

\* Finalizing reached by a run that entered the loop and saved no image
C13_Witness ==
    /\ pc = "manifest"
    /\ params.count >= 1
    /\ results = <<>>
    /\ Len(failed) = params.count

(* C14: within one batch at most one generateImage call is in flight at any
   time, and no attempt for an index begins before every earlier index has
   reached its terminal outcome (saved, failed, or the loop broken). *)
C14_OneCallInFlightOneIndexAtATime ==
    /\ inFlight <= 1
    /\ inFlight = 1 => pc = "retry" /\ rpc = "await"
    /\ pc = "retry" =>
          {results[k].index : k \in 1..Len(results)}
             \cup {failed[k].index : k \in 1..Len(failed)} = 0..(i - 1)

\* a call for a later index is in flight
C14_Witness ==
    /\ inFlight = 1
    /\ pc = "retry"
    /\ i >= 1
    /\ results # <<>>
    /\ failed # <<>>

Males(res) == {k \in 1..Len(res) : res[k].gender = "male"}
Females(res) == {k \in 1..Len(res) : res[k].gender = "female"}

(* C15: for count >= 1, a run in which every index is generated and saved
   and the manifest and the configuration are written produces exactly count
   results, ceil(count/2) male and floor(count/2) female, a manifest with
   totalCount = count, and budget.spent grown by estimatedCost. *)
C15_AllSucceedGivesFullBatch ==
    (pc = "done" /\ params.count >= 1 /\ failed = <<>>)
    => /\ Len(results) = params.count
       /\ Cardinality(Males(results)) = params.count - (params.count \div 2)
       /\ Cardinality(Females(results)) = params.count \div 2
       /\ manifest.written
       /\ manifest.totalCount = params.count
       /\ ~estimatedCost.nan
       /\ disk.budget.spent = Num(config.budget.spent.v + estimatedCost.v)

\* a finished run of three images without a failed index
C15_Witness ==
    /\ pc = "done"
    /\ params.count = 3
    /\ failed = <<>>
    /\ manifest.written
    /\ manifest.maleCount = 2
    /\ manifest.femaleCount = 1

(* C16: for count >= 0, maleCount = ceil(count/2) and femaleCount =
   floor(count/2), they add up to count and differ by 0 or 1; the image of
   index i is male exactly when i < maleCount, whatever the configured
   gender ratio. *)
C16_GenderSplitByIndex ==
    GateEvaluated =>
      LET n == params.count
          m == MaleCount(n)
          f == FemaleCount(n)
      IN  /\ 2 * m >= n /\ 2 * m <= n + 1
          /\ 2 * f <= n /\ 2 * f >= n - 1
          /\ m + f = n
          /\ m - f \in {0, 1}
          /\ \A k \in 1..Len(results) :
                results[k].gender = "male" <=> results[k].index < n - (n \div 2)

\* the last image of three is female although 70% male is configured
C16_Witness ==
    /\ config # NoConfig
    /\ config.gender.maleRatio = 70
    /\ params.count = 3
    /\ Len(results) = 3
    /\ results[3].gender = "female"
    /\ results[2].gender = "male"

(* C17: updateBudgetSpent(path, a) rewrites the configuration with
   budget.spent = the value on disk + a, for a positive, zero and negative
   alike and with no validation, and with every other field equal to the
   value that was read. *)
C17_WriteAddsAmountKeepsOtherFields ==
    [][(pc = "ubWrite" /\ pc' = "done")
         => /\ ubConfig = disk
            /\ ~disk'.budget.spent.nan
            /\ disk'.budget.spent.v = disk.budget.spent.v + ubAmount.v
            /\ disk'.budget.total = disk.budget.total
            /\ disk'.budget.warnThreshold = disk.budget.warnThreshold
            /\ disk'.apiKey = disk.apiKey
            /\ disk'.retry = disk.retry
            /\ disk'.gender = disk.gender]_vars

\* a refund larger than the amount spent was written: spent is negative
C17_Witness ==
    /\ pc = "done"
    /\ p2pc = "none"
    /\ ubAmount.v < 0
    /\ disk.budget.spent.v = ubConfig.budget.spent.v + ubAmount.v
    /\ disk.budget.spent.v < 0

(* C18: a read or parse failure inside updateBudgetSpent propagates and the
   file is not written; a write failure propagates too; neither is retried
   or swallowed, and generateBatch fails with it. *)
C18_ConfigUpdateErrorsPropagate ==
    /\ failure.kind = "configRead"
          => /\ pc = "failed"
             /\ ConfigWrites = 0
             /\ disk = config
             /\ ubConfig = NoConfig
    /\ failure.kind = "configWrite"
          => /\ pc = "failed"
             /\ ConfigWrites = 0
    /\ pc \in {"ubRead", "ubWrite", "done"} => failure = NoFailure
    /\ pc = "done" => ConfigWrites = 1

\* the configuration could not be read back after images and manifest were
\* saved
C18_Witness ==
    /\ pc = "failed"
    /\ failure.kind = "configRead"
    /\ manifest.written
    /\ results # <<>>
    /\ disk = config

(* C19: for total > 0, the budget check's message is 'exceeded' exactly when
   the run is not allowed, 'warning' exactly when it is allowed and
   (spent + estimatedCost) / total >= warnThreshold, equality included, and
   'ok' exactly when it is allowed and below the threshold. *)
C19_MessageKindByThreshold ==
    (GateEvaluated /\ config.budget.total.v > 0) =>
      LET after == config.budget.spent.v + estimatedCost.v
          atThreshold ==
              after * 100 >= config.budget.warnThreshold * config.budget.total.v
      IN  /\ budgetCheck.kind \in {"exceeded", "warning", "ok"}
          /\ budgetCheck.kind = "exceeded" <=> ~budgetCheck.allowed
          /\ budgetCheck.kind = "warning"
                <=> (budgetCheck.allowed /\ atThreshold)
          /\ budgetCheck.kind = "ok"
                <=> (budgetCheck.allowed /\ ~atThreshold)

\* a run whose cost brings the budget to the threshold exactly is warned
C19_Witness ==
    /\ GateEvaluated
    /\ budgetCheck.kind = "warning"
    /\ (config.budget.spent.v + estimatedCost.v) * 100
          = config.budget.warnThreshold * config.budget.total.v

BothUpdatesDone == pc = "done" /\ p2pc = "done"

(* C20: two invocations of the budget write-back against the same
   configuration file are not coordinated: each writes the value it read
   plus its own amount, so when both read before either wrote, the persisted
   budget.spent holds only the last writer's amount (a lost update). *)
C20_LastWriterSetsSpent ==
    BothUpdatesDone =>
      LET r1 == ubConfig.budget.spent.v
          r2 == p2Config.budget.spent.v
          a1 == ubAmount.v
          a2 == p2Amount.v
          final == disk.budget.spent.v
          lastOp == events[Len(events)].op
      IN  /\ Len(events) = 2
          /\ lastOp = "config" => final = r1 + a1
          /\ lastOp = "config2" => final = r2 + a2
          /\ r1 = r2 => final \in {r1 + a1, r1 + a2}
          /\ r1 # r2 =>
                final = (IF lastOp = "config2" THEN r1 ELSE r2) + a1 + a2

\* both callers read the same value and both wrote: the first caller's
\* amount is missing from the file
C20_Witness ==
    /\ BothUpdatesDone
    /\ ubConfig.budget.spent = p2Config.budget.spent
    /\ ubAmount.v > 0
    /\ p2Amount.v > 0
    /\ disk.budget.spent.v = p2Config.budget.spent.v + p2Amount.v
    /\ disk.budget.spent.v < ubConfig.budget.spent.v + ubAmount.v + p2Amount.v

----------------------------------------------------------------------------
(* loadConfig (config/loader.ts) and the command's action (index.ts) *)

\* generateBatch: const configPath = 'badge-gen.config.yaml'
configPath == "badge-gen.config.yaml"
ConfigPaths == {"badge-gen.config.yaml", "./custom-config.yaml"}

\* the file a path names
FileAt(path) == IF path = configPath THEN disk ELSE otherDisk

NumVal(n) == [kind |-> "number", n |-> n]

\* String.prototype.trim on the strings of the model
Trim(s) == IF s \in {"", "  "} THEN "" ELSE s

\* parseFloat on the strings of the model, in cents
ParseFloat(s) ==
    CASE s = "0.01" -> Num(1)
      [] s = "0.09" -> Num(9)
      [] OTHER -> NaN

\* parseInt(s, 10) on the strings of the model
ParseInt(s) ==
    CASE s = "1" -> Num(1)
      [] s = "2" -> Num(2)
      [] s = "10" -> Num(10)
      [] OTHER -> NaN

\* a size string, held as its split('x') parts
Size(parts) == [kind |-> "size", parts |-> parts]

\* isValidValue: not undefined or null, not a blank string, not NaN
isValidValue(value) ==
    /\ value.kind # "undefined"
    /\ ~(value.kind = "string" /\ Trim(value.s) = "")
    /\ ~(value.kind = "number" /\ value.n.nan)

\* fileConfig = YAML.parse(content), or {} when the file cannot be read
FileApiKey(file) == IF file = NoConfig THEN Absent ELSE file.apiKey
FileTotal(file) == IF file = NoConfig THEN Absent ELSE NumVal(file.budget.total)

ApiKeyEnvFirst(cliKey, fileKey, envKey) ==
    IF isValidValue(envKey) THEN envKey.s
    ELSE IF isValidValue(cliKey) THEN cliKey.s
    ELSE IF isValidValue(fileKey) THEN fileKey.s
    ELSE ""
\* API Key: CLI > Config file > Environment variable > Empty string
ResolveApiKey(cliKey, fileKey, envKey) ==
    IF isValidValue(cliKey) THEN cliKey.s
    ELSE IF isValidValue(fileKey) THEN fileKey.s
    ELSE IF isValidValue(envKey) THEN envKey.s
    ELSE ""

\* Budget: CLI > Config file > undefined
ResolveBudget(cliOpt, fileTotal) ==
    LET cliBudget == IF cliOpt.kind = "undefined" THEN Absent
                     ELSE NumVal(ParseFloat(cliOpt.s))
    IN  IF isValidValue(cliBudget) THEN cliBudget
        ELSE IF isValidValue(fileTotal) THEN fileTotal
        ELSE Absent

\* fileConfig.defaults?.<name>: undefined without a file or a defaults section
FileDefaults(file) ==
    IF file = NoConfig \/ "defaults" \notin DOMAIN file
    THEN [count |-> Absent, style |-> Absent, format |-> Absent,
          outputDir |-> Absent, minSize |-> Absent, maxSize |-> Absent]
    ELSE file.defaults

\* Count: CLI > Config file > Hard-coded default (10)
ResolveCount(cliOpt, fileCount) ==
    LET cliCount == IF cliOpt.kind = "undefined" THEN Absent
                    ELSE NumVal(ParseInt(cliOpt.s))
    IN  IF isValidValue(cliCount) THEN cliCount.n.v
        ELSE IF isValidValue(fileCount) THEN fileCount.n.v
        ELSE 10

\* the string an option value or a file value holds
StringOfValue(value) == IF value.kind = "size" THEN value.parts ELSE value.s

\* Style, format, output directory, min size, max size:
\* CLI > Config file > Hard-coded default
ResolveOption(cliOpt, fileOpt, hardCoded) ==
    IF isValidValue(cliOpt) THEN StringOfValue(cliOpt)
    ELSE IF isValidValue(fileOpt) THEN StringOfValue(fileOpt)
    ELSE hardCoded

\* the GenerationParams loadConfig builds
loadConfig(opts, envKey, file) ==
    [count |-> ResolveCount(opts.count, FileDefaults(file).count),
     style |-> ResolveOption(opts.style, FileDefaults(file).style, "bitmoji"),
     format |-> ResolveOption(opts.format, FileDefaults(file).format, "png"),
     outputDir |-> ResolveOption(opts.output, FileDefaults(file).outputDir,
                                 "./badges"),
     minSize |-> ResolveOption(opts.minSize, FileDefaults(file).minSize,
                               <<"900", "800">>),
     maxSize |-> ResolveOption(opts.maxSize, FileDefaults(file).maxSize,
                               <<"2100", "1500">>),
     apiKey |-> ResolveApiKey(opts.apiKey, FileApiKey(file), envKey),
     budget |-> ResolveBudget(opts.budget, FileTotal(file)),
     dryRun |-> (opts.dryRun = TRUE)]

\* if (!config.apiKey && !config.dryRun) throw
loadConfigThrows(cfg) == cfg.apiKey = "" /\ ~cfg.dryRun

\* const config = await loadConfig(options.config, options), and the catch
\* clause of the action when it throws
CliLoadConfig ==
    /\ pc = "cli"
    /\ LET cfg == loadConfig(options, env, FileAt(options.config))
       IN  IF loadConfigThrows(cfg)
           THEN /\ Fail("apiKey", "API key is required")
                /\ UNCHANGED params
           ELSE /\ params' = cfg
                /\ pc' = "start"
                /\ UNCHANGED failure
    /\ UNCHANGED <<disk, config, estimatedCost, budgetCheck, events, apiCalled,
                   i, results, failed, manifest, ubConfig, ubAmount, p2pc,
                   p2Config, p2Amount, options, argv, runs, p2Run,
                   env, otherDisk, exitCode,
                   fnArgs, fnResult>>
    /\ UNCHANGED retryVars

ExitCodeZero(rejected) == 0
\* catch (error) { ...; process.exit(1) }; otherwise the process ends with
\* the default code
ExitCodeAfter(rejected) == IF rejected THEN 1 ELSE 0

\* the action's promise settles and the process ends
ProcessExit ==
    /\ options # NoOptions
    /\ pc \in {"done", "failed"}
    /\ exitCode' = ExitCodeAfter(pc = "failed")
    /\ pc' = "exited"
    /\ UNCHANGED <<params, disk, config, estimatedCost, budgetCheck, failure,
                   events, apiCalled, i, results, failed, manifest, ubConfig,
                   ubAmount, p2pc, p2Config, p2Amount, options, argv, runs, p2Run,
                   env, otherDisk,
                   fnArgs, fnResult>>
    /\ UNCHANGED retryVars

\* Inputs of the command line runs
CliRetryPolicy == CHOOSE p \in BatchPolicies : p.maxAttempts = 2

\* an option's value when given, else the default declared with .option()
OrDefault(value, default) == IF value.kind = "undefined" THEN default ELSE value

\* program.option(...): the options object of the action.  count, style,
\* output, format, min-size, max-size and config are declared with a default
\* value, dry-run and art-test with false, budget and api-key with none.
Commander(given) ==
    [given |-> TRUE,
     count |-> OrDefault(given.count, Str("10")),
     style |-> OrDefault(given.style, Str("bitmoji")),
     output |-> OrDefault(given.output, Str("./badges")),
     format |-> OrDefault(given.format, Str("png")),
     minSize |-> OrDefault(given.minSize, Size(<<"900", "800">>)),
     maxSize |-> OrDefault(given.maxSize, Size(<<"2100", "1500">>)),
     config |-> OrDefault(given.config, Str("badge-gen.config.yaml")).s,
     budget |-> given.budget,
     dryRun |-> given.dryRun,
     apiKey |-> given.apiKey,
     artTest |-> given.artTest]

CliArgvs ==
    [count : {Str("1"), Str("2")},
     style : {Str(st) : st \in StyleNames},
     output : {Absent}, format : {Absent},
     minSize : {Size(<<"900", "800">>)}, maxSize : {Size(<<"2100", "1500">>)},
     config : {Str(path) : path \in ConfigPaths},
     budget : {Absent, Str("0.01"), Str("0.09")},
     dryRun : BOOLEAN, apiKey : {Absent, Str("sk-cli")}, artTest : {FALSE}]

CliConfigs ==
    [apiKey : {Str("sk-key")},
     budget : [total : {Num(3)}, spent : {Num(0), Num(2)},
               warnThreshold : WarnThresholds],
     retry : {CliRetryPolicy},
     gender : [maleRatio : {50}]]

OtherFiles ==
    {NoConfig,
     [apiKey |-> Str("sk-other"),
      budget |-> [total |-> Num(9), spent |-> Num(0), warnThreshold |-> 80],
      retry |-> CliRetryPolicy,
      gender |-> [maleRatio |-> 50]]}

\* badge-gen [options]: the action starts with the options parsed
CliInit ==
    /\ params = IdleParams
    /\ disk \in CliConfigs
    /\ config = NoConfig
    /\ estimatedCost = Num(0)
    /\ budgetCheck = [allowed |-> FALSE, kind |-> "none"]
    /\ pc = "cli"
    /\ failure = NoFailure
    /\ events = <<>>
    /\ apiCalled = FALSE
    /\ i = 0
    /\ results = <<>>
    /\ failed = <<>>
    /\ manifest = NoManifest
    /\ ubConfig = NoConfig
    /\ ubAmount = Num(0)
    /\ p2pc = "none"
    /\ p2Config = NoConfig
    /\ p2Amount = Num(0)
    /\ argv \in CliArgvs
    /\ options = Commander(argv)
    /\ env = Absent
    /\ otherDisk \in OtherFiles
    /\ exitCode = 0
    /\ fnArgs = NoCall
    /\ fnResult = NoCall
    /\ rcfg = disk.retry
    /\ RetryIdleInit
    /\ OneRunInit

CliNext ==
    \/ CliLoadConfig
    \/ Next
    \/ ProcessExit

CliSpec == CliInit /\ [][CliNext]_vars

\* Inputs of loadConfig called on its own, as its tests call it

LoadOptions ==
    [given : {TRUE}, count : {Absent, Str("1"), Str("abc")},
     style : {Absent, Str("anime")}, output : {Absent},
     format : {Absent}, minSize : {Absent, Size(<<"900", "800">>)},
     maxSize : {Absent},
     config : ConfigPaths, budget : {Absent, Str("abc")},
     dryRun : BOOLEAN,
     apiKey : {Absent, Str(""), Str("  "), Str("sk-cli")},
     artTest : {FALSE}]

\* the defaults section of a configuration file
FileDefaultsSection ==
    [count |-> NumVal(Num(2)), style |-> Str("pixar"), format |-> Str("jpg"),
     outputDir |-> Str("./file-output"), minSize |-> Size(<<"1", "1">>),
     maxSize |-> Size(<<"2", "3">>)]

LoadConfigs ==
    [apiKey : {Absent, Str(""), Str("sk-file")},
     budget : [total : {Num(3)}, spent : {Num(0)},
               warnThreshold : WarnThresholds],
     retry : {CliRetryPolicy},
     gender : [maleRatio : {50}]]
    \cup
    [apiKey : {Str("sk-file")},
     budget : [total : {Num(3)}, spent : {Num(0)},
               warnThreshold : WarnThresholds],
     defaults : {FileDefaultsSection},
     retry : {CliRetryPolicy},
     gender : [maleRatio : {50}]]

LoadInit ==
    /\ params = IdleParams
    /\ disk \in LoadConfigs
    /\ config = NoConfig
    /\ estimatedCost = Num(0)
    /\ budgetCheck = [allowed |-> FALSE, kind |-> "none"]
    /\ pc = "cli"
    /\ failure = NoFailure
    /\ events = <<>>
    /\ apiCalled = FALSE
    /\ i = 0
    /\ results = <<>>
    /\ failed = <<>>
    /\ manifest = NoManifest
    /\ ubConfig = NoConfig
    /\ ubAmount = Num(0)
    /\ p2pc = "none"
    /\ p2Config = NoConfig
    /\ p2Amount = Num(0)
    /\ options \in LoadOptions
    /\ argv = NoOptions
    /\ env \in {Absent, Str(""), Str("sk-env")}
    /\ otherDisk = NoConfig
    /\ exitCode = 0
    /\ fnArgs = NoCall
    /\ fnResult = NoCall
    /\ rcfg = disk.retry
    /\ RetryIdleInit
    /\ OneRunInit

LoadNext == CliLoadConfig

LoadSpec == LoadInit /\ [][LoadNext]_vars

----------------------------------------------------------------------------
(* parseDimension, randomizeDimensions and generateDiversityAttributes called
   on their own, as their tests call them *)

MaxSupported == 3

SizeStrings ==
    UNION {[1..n -> {"", "abc", "0", "-5", "2", "3"}] : n \in 1..2}

SmallDimensions ==
    {Dimension(1, 3), Dimension(1, 2), Dimension(2, 2), Dimension(3, 1),
     Dimension(2, 1)}
SupportedLists == UNION {[1..n -> SmallDimensions] : n \in 0..MaxSupported}

ParseArgs == [fn : {"parseDimension"}, sizeStr : SizeStrings]
RandomizeArgs ==
    [fn : {"randomizeDimensions"},
     minSize : {<<"1", "1">>, <<"3", "2">>, <<"2">>},
     maxSize : {<<"2", "3">>, <<"1", "1">>},
     supportedDimensions : SupportedLists]
AttributeArgs == [fn : {"generateDiversityAttributes"}, gender : {"male", "female"}]

helperUnchanged ==
    <<params, disk, config, estimatedCost, budgetCheck, failure, events,
      apiCalled, i, results, failed, manifest, ubConfig, ubAmount, p2pc,
      p2Config, p2Amount, options, argv, runs, p2Run,
      env, otherDisk, exitCode, fnArgs>>

\* parseDimension(sizeStr)
TestParseDimension ==
    /\ pc = "fnTest"
    /\ fnArgs.fn = "parseDimension"
    /\ fnResult' = parseDimension(fnArgs.sizeStr)
    /\ pc' = "fnDone"
    /\ UNCHANGED helperUnchanged
    /\ UNCHANGED retryVars

\* randomizeDimensions(minSize, maxSize, supportedDimensions): the two
\* parses, the two draws, the choice
TestRandomizeDimensions ==
    /\ pc = "fnTest"
    /\ fnArgs.fn = "randomizeDimensions"
    /\ LET min == parseDimension(fnArgs.minSize)
           max == parseDimension(fnArgs.maxSize)
       IN  IF min.threw THEN fnResult' = min
           ELSE IF max.threw THEN fnResult' = max
           ELSE \E dw \in RandomFloorTimes(max.value.width - min.value.width + 1),
                   dh \in RandomFloorTimes(max.value.height - min.value.height + 1) :
                  fnResult' =
                     [threw |-> FALSE,
                      draw |-> Dimension(dw + min.value.width,
                                         dh + min.value.height),
                      value |-> randomizeDimensions(min.value, max.value,
                                   fnArgs.supportedDimensions, dw, dh)]
    /\ pc' = "fnDone"
    /\ UNCHANGED helperUnchanged
    /\ UNCHANGED retryVars

\* generateDiversityAttributes(gender)
TestGenerateDiversityAttributes ==
    /\ pc = "fnTest"
    /\ fnArgs.fn = "generateDiversityAttributes"
    /\ \E attributes \in generateDiversityAttributes(fnArgs.gender) :
          fnResult' = [threw |-> FALSE, value |-> attributes]
    /\ pc' = "fnDone"
    /\ UNCHANGED helperUnchanged
    /\ UNCHANGED retryVars

HelperInit ==
    /\ params = IdleParams
    /\ disk = NoConfig
    /\ config = NoConfig
    /\ estimatedCost = Num(0)
    /\ budgetCheck = [allowed |-> FALSE, kind |-> "none"]
    /\ pc = "fnTest"
    /\ failure = NoFailure
    /\ events = <<>>
    /\ apiCalled = FALSE
    /\ i = 0
    /\ results = <<>>
    /\ failed = <<>>
    /\ manifest = NoManifest
    /\ ubConfig = NoConfig
    /\ ubAmount = Num(0)
    /\ p2pc = "none"
    /\ p2Config = NoConfig
    /\ p2Amount = Num(0)
    /\ options = NoOptions
    /\ argv = NoOptions
    /\ env = Absent
    /\ otherDisk = NoConfig
    /\ exitCode = 0
    /\ fnArgs \in ParseArgs \cup RandomizeArgs \cup AttributeArgs
    /\ fnResult = NoCall
    /\ rcfg = CliRetryPolicy
    /\ RetryIdleInit
    /\ OneRunInit

HelperNext ==
    \/ TestParseDimension
    \/ TestRandomizeDimensions
    \/ TestGenerateDiversityAttributes

HelperSpec == HelperInit /\ [][HelperNext]_vars

----------------------------------------------------------------------------
(* C21: when dryRun is true the run previews without generating:
   generateImage is never called and budget.spent is not increased.
   generateBatch never reads params.dryRun. *)
C21_DryRunCallsNoProviderAndKeepsSpent ==
    params.dryRun
    => /\ ~apiCalled
       /\ config # NoConfig => disk.budget.spent = config.budget.spent

(* C22: a budget limit given with --budget is the total the pre-flight gate
   compares against: the run is allowed exactly when the override minus
   budget.spent is at least the estimated cost, whatever budget.total the
   configuration file holds.
   generateBatch never reads params.budget. *)
C22_GateUsesBudgetOverride ==
    (budgetCheck.kind # "none" /\ options # NoOptions
       /\ options.budget # Absent /\ params.budget.kind = "number")
    => (budgetCheck.allowed
          <=> params.budget.n.v - config.budget.spent.v >= estimatedCost.v)

(* C23: the configuration path given with --config is the file from which
   generateBatch loads the budget and retry policy and the file to which it
   writes budget.spent back.
   generateBatch reads and writes 'badge-gen.config.yaml' whatever the
   option says. *)
C23_ConfigOptionNamesTheFileUsed ==
    (options # NoOptions /\ config # NoConfig)
    => LET file == FileAt(options.config)
       IN  /\ file # NoConfig
           /\ config.budget.total = file.budget.total
           /\ config.retry = file.retry
           /\ ConfigWrites = 0 => file.budget.spent = config.budget.spent
           /\ ConfigWrites = 1
                 => file.budget.spent = FAdd(config.budget.spent, ubAmount)

FatalKinds ==
    {"apiKey", "config", "budget", "mkdir", "style", "manifest", "configRead",
     "configWrite"}

(* C24: the process exits with a non-zero code when the run aborts fatally
   (the configuration cannot be loaded, the budget is insufficient before
   the start, the manifest or the budget cannot be persisted) and with code
   0 whenever the run reaches Finalizing and completes it, including when
   some or all images failed. *)
C24_ExitCodeTellsFatalAbort ==
    pc = "exited"
    => /\ failure # NoFailure => failure.kind \in FatalKinds /\ exitCode # 0
       /\ failure = NoFailure
             => /\ exitCode = 0
                /\ manifest.written
                /\ ConfigWrites = 1
       /\ exitCode \in {0, 1}
       /\ exitCode = 0 => failure = NoFailure

\* exit code 0 after a run in which every image failed
C24_Witness ==
    /\ pc = "exited"
    /\ exitCode = 0
    /\ results = <<>>
    /\ Len(failed) = params.count
    /\ manifest.written

NonEmpty(value) == value.kind = "string" /\ value.s # ""
NonBlank(value) == value.kind = "string" /\ value.s \notin {"", "  "}
LoadConfigReturned == options # NoOptions /\ pc # "cli" /\ failure.kind # "apiKey"
LoadConfigThrew == options # NoOptions /\ pc = "failed" /\ failure.kind = "apiKey"

(* C28: loadConfig resolves apiKey as the first non-empty value among the
   CLI option, the config file and the STABILITY_API_KEY environment
   variable, in that order; when none is non-empty it throws 'API key is
   required' unless dryRun is true, in which case it returns apiKey = ''. *)
C28_FirstNonEmptyApiKey ==
    (options # NoOptions /\ pc # "cli") =>
      LET cliKey == options.apiKey
          fileKey == FileApiKey(FileAt(options.config))
          expected == IF NonEmpty(cliKey) THEN cliKey.s
                      ELSE IF NonEmpty(fileKey) THEN fileKey.s
                      ELSE IF NonEmpty(env) THEN env.s
                      ELSE ""
      IN  /\ LoadConfigThrew <=> (expected = "" /\ options.dryRun # TRUE)
          /\ LoadConfigReturned => params.apiKey = expected

(* C28, amended: the same with 'non-empty' read as isValidValue reads it: a
   value that is undefined, empty or made of white space only is passed
   over. *)
C28_FirstNonBlankApiKey ==
    (options # NoOptions /\ pc # "cli") =>
      LET cliKey == options.apiKey
          fileKey == FileApiKey(FileAt(options.config))
          expected == IF NonBlank(cliKey) THEN cliKey.s
                      ELSE IF NonBlank(fileKey) THEN fileKey.s
                      ELSE IF NonBlank(env) THEN env.s
                      ELSE ""
      IN  /\ LoadConfigThrew <=> (expected = "" /\ options.dryRun # TRUE)
          /\ LoadConfigThrew => failure.msg = "API key is required"
          /\ LoadConfigReturned => params.apiKey = expected

\* a blank --api-key and an empty key in the file are passed over for the
\* environment variable
C28_Witness ==
    /\ LoadConfigReturned
    /\ options.apiKey = Str("  ")
    /\ FileApiKey(FileAt(options.config)) = Str("")
    /\ env = Str("sk-env")
    /\ params.apiKey = "sk-env"

----------------------------------------------------------------------------
Randomized ==
    /\ pc = "fnDone"
    /\ fnArgs.fn = "randomizeDimensions"
    /\ ~fnResult.threw
HasPortrait(supported) ==
    \E k \in 1..Len(supported) : supported[k].height >= supported[k].width

(* C25: for every min, max and every supported list that holds at least one
   size with height >= width, the size randomizeDimensions returns is an
   element of supported with height >= width, for every random draw. *)
C25_ReturnsSupportedPortrait ==
    (Randomized /\ HasPortrait(fnArgs.supportedDimensions))
    => /\ \E k \in 1..Len(fnArgs.supportedDimensions) :
             fnArgs.supportedDimensions[k] = fnResult.value
       /\ fnResult.value.height >= fnResult.value.width

\* a portrait size was chosen from a list that starts with a landscape one
C25_Witness ==
    /\ Randomized
    /\ Len(fnArgs.supportedDimensions) = 3
    /\ fnArgs.supportedDimensions[1] = Dimension(3, 1)
    /\ fnArgs.supportedDimensions[3] = fnResult.value
    /\ fnResult.value = Dimension(1, 3)

(* C26: when supported holds no size with height >= width,
   randomizeDimensions returns the first element of supported if there is
   one and {1024, 1024} if supported is empty, whatever the bounds and the
   random draw. *)
C26_FallbackIsFirstOrSquare ==
    (Randomized /\ ~HasPortrait(fnArgs.supportedDimensions))
    => fnResult.value =
          IF Len(fnArgs.supportedDimensions) >= 1
          THEN fnArgs.supportedDimensions[1]
          ELSE [width |-> 1024, height |-> 1024]

\* two landscape sizes: the first one is returned
C26_Witness ==
    /\ Randomized
    /\ fnArgs.supportedDimensions = <<Dimension(2, 1), Dimension(3, 1)>>
    /\ fnResult.value = Dimension(2, 1)
    /\ fnArgs.minSize = <<"3", "2">>
    /\ fnArgs.maxSize = <<"1", "1">>

PositiveIntegerParts == {"2", "3"}
IntegerOfPart(part) == IF part = "2" THEN 2 ELSE 3

(* C27: parseDimension returns {width: W, height: H} for every string
   <positive-int W>x<positive-int H> and fails, with a message that holds
   the input, for every other string: a width or height half that is
   missing, non-numeric, zero or negative, with and without the 'x'.
   A negative half is truthy, so the code returns it. *)
C27_ParsesExactlyPositiveIntegerPairs ==
    (pc = "fnDone" /\ fnArgs.fn = "parseDimension") =>
      LET sizeStr == fnArgs.sizeStr
      IN  IF /\ Len(sizeStr) = 2
             /\ sizeStr[1] \in PositiveIntegerParts
             /\ sizeStr[2] \in PositiveIntegerParts
          THEN /\ ~fnResult.threw
               /\ fnResult.value = [width |-> IntegerOfPart(sizeStr[1]),
                                    height |-> IntegerOfPart(sizeStr[2])]
          ELSE /\ fnResult.threw
               /\ fnResult.sizeStr = sizeStr

(* C29: for every random draw, generateDiversityAttributes(g) returns
   'age ethnicity g feature' with age and ethnicity from their fixed sets
   and the feature from the feature set of gender g only: a male result has
   no long-hair or short-hair feature and a female result no beard or
   mustache feature. *)
C29_AttributesFollowGender ==
    (pc = "fnDone" /\ fnArgs.fn = "generateDiversityAttributes") =>
      LET a == fnResult.value
      IN  /\ Len(a) = 4
          /\ a[1] \in {"young adult", "middle-aged", "senior"}
          /\ a[2] \in {"Asian", "Black", "Caucasian", "Hispanic",
                       "Middle Eastern", "South Asian"}
          /\ a[3] = fnArgs.gender
          /\ fnArgs.gender = "male"
                => a[4] \in {"with glasses", "without glasses", "with beard",
                             "clean-shaven", "with mustache"}
          /\ fnArgs.gender = "female"
                => a[4] \in {"with glasses", "without glasses",
                             "with long hair", "with short hair"}
          /\ \A k \in 1..4 :
                /\ fnArgs.gender = "male"
                      => a[k] \notin {"with long hair", "with short hair"}
                /\ fnArgs.gender = "female"
                      => a[k] \notin {"with beard", "with mustache"}

\* the last option of each array is drawn for a female
C29_Witness ==
    /\ pc = "fnDone"
    /\ fnArgs.fn = "generateDiversityAttributes"
    /\ fnResult.value = <<"senior", "South Asian", "female", "with short hair">>

(* C30: in every run with count >= 1 and a positive price per image that
   passed the pre-flight gate, the early budget break is never taken: at
   every per-image failure spent + results.length * (estimatedCost / count)
   is strictly below budget.total, so every index 0..count-1 is attempted. *)
C30_EarlyBreakNeverTaken ==
    /\ (pc \in {"loop", "retry"} /\ params.count >= 1)
          => /\ budgetCheck.allowed
             /\ i < params.count
                   => config.budget.spent.v * params.count
                         + Len(results) * estimatedCost.v
                        < config.budget.total.v * params.count
             /\ Len(results) + Len(failed) = i
    /\ (LoopEnded /\ params.count >= 1)
          => /\ i = params.count
             /\ Len(results) + Len(failed) = params.count
             /\ {failed[k].index : k \in 1..Len(failed)}
                   \cup {results[k].index : k \in 1..Len(results)}
                  = 0..(params.count - 1)

\* the first index failed with the budget used to the last cent by the
\* estimate, and the remaining indices were attempted
C30_Witness ==
    /\ pc = "manifest"
    /\ params.count = 3
    /\ config.budget.spent.v + estimatedCost.v = config.budget.total.v
    /\ failed # <<>>
    /\ failed[1].index = 0
    /\ Len(results) = 2

----------------------------------------------------------------------------
\* C34: the first wait of a retryWithBackoff call is initialDelay itself,
\* also when initialDelay exceeds maxDelay; every later wait is the smaller
\* of the previous wait times backoffMultiplier and maxDelay, and so is at
\* most maxDelay.
C34_ClampOnlyOnLaterWaits ==
    /\ Len(waits) >= 1 => waits[1] = rcfg.initialDelayMs
    /\ \A j \in 2..Len(waits) :
          /\ waits[j] = Min(waits[j - 1] * rcfg.backoffMultiplier,
                            rcfg.maxDelayMs)
          /\ waits[j] <= rcfg.maxDelayMs

C34_Witness ==
    /\ Len(waits) = 2
    /\ rcfg.initialDelayMs > rcfg.maxDelayMs
    /\ waits[1] = rcfg.initialDelayMs
    /\ waits[2] = rcfg.maxDelayMs

\* C35: retryWithBackoff does not wait before its first attempt nor after its
\* final failed attempt: a call that exhausted maxAttempts >= 1 attempts
\* made maxAttempts - 1 waits, and a call that succeeded on attempt n made
\* n - 1 waits.
C35_WaitsOnlyBetweenAttempts ==
    RetrySettled =>
        /\ calls = 0 => waits = <<>>
        /\ Len(waits) <= fnFailures
        /\ rpc = "thrown" =>
              /\ attempt = rcfg.maxAttempts
              /\ Len(waits) = rcfg.maxAttempts - 1
        /\ rpc = "returned" =>
              /\ calls = attempt
              /\ Len(waits) = attempt - 1

C35_Witness ==
    /\ RetrySettled
    /\ rpc = "thrown"
    /\ rcfg.maxAttempts = 3
    /\ fnFailures = 3
    /\ Len(waits) = 2

----------------------------------------------------------------------------
\* C33: in every manifest that generateBatch writes, totalCount is the
\* length of images and the sum of maleCount and femaleCount, and is at most
\* the requested count; maleCount is at most ceil(count/2), femaleCount at
\* most floor(count/2); costUsd is totalCount * (estimatedCost / count).
C33_ManifestCountsAndCost ==
    manifest.written =>
        /\ manifest.totalCount = Len(manifest.images)
        /\ manifest.totalCount = manifest.maleCount + manifest.femaleCount
        /\ manifest.totalCount <= params.count
        /\ manifest.maleCount <= (params.count + 1) \div 2
        /\ manifest.femaleCount <= params.count \div 2
        /\ manifest.costUsd
              = FMul(Num(manifest.totalCount),
                     FDiv(estimatedCost, Num(params.count)))

\* two of three images were produced, one of each gender
C33_Witness ==
    /\ manifest.written
    /\ params.count = 3
    /\ manifest.totalCount = 2
    /\ manifest.maleCount = 1
    /\ manifest.femaleCount = 1
    /\ manifest.costUsd = Num(2 * PricePerImage)

\* C36: when the provider call of an index succeeded but its result carries
\* no image data, or its file could not be saved, the index is recorded as
\* failed: no ImageResult is appended and no file is recorded for it, the
\* loop goes on with the next index, the provider is not called for that
\* index again, and the index is counted neither in the manifest nor in the
\* amount written back to the budget.
C36_UnusableResultSkipsIndex ==
    /\ [](/\ pc = "retry" => \A k \in 1..Len(failed) : failed[k].index # i
          /\ \A k \in 1..Len(failed) : \A j \in 1..Len(results) :
                results[j].index # failed[k].index
          /\ manifest.written => manifest.totalCount = Len(results)
          /\ pc \in {"ubWrite", "done"} =>
                ubAmount = FMul(Num(Len(results)),
                                FDiv(estimatedCost, Num(params.count))))
    /\ [][/\ (pc = "retry" /\ rpc = "returned" /\ rresult = ImageNoData) =>
                failed' = Append(failed, [index |-> i, cause |-> "nodata"])
          /\ (/\ Len(failed') = Len(failed) + 1
              /\ failed'[Len(failed')].cause \in {"nodata", "save"}) =>
                /\ rpc = "returned"
                /\ failed'[Len(failed')].index = i
                /\ results' = results
                /\ events' = events
                /\ pc' = "loop"
                /\ i' = i + 1]_vars

\* index 0 returned no data, index 1 was not saved, index 2 was produced
C36_Witness ==
    /\ pc = "done"
    /\ params.count = 3
    /\ Len(failed) = 2
    /\ failed[1] = [index |-> 0, cause |-> "nodata"]
    /\ failed[2] = [index |-> 1, cause |-> "save"]
    /\ Len(results) = 1
    /\ manifest.totalCount = 1
    /\ disk.budget.spent.v = config.budget.spent.v + PricePerImage

\* C39: a style name that is not a preset makes generateBatch fail after
\* the pre-flight gate has passed and the three output directories were
\* created, before any generateImage call; the run writes no manifest and
\* does not write the configuration file.
\* The lookup accepts a name that STYLE_PRESETS inherits, such as
\* "constructor": the run goes on with that value as its preset.
C39_UnknownStyleFailsBeforeFirstCall ==
    /\ params.style \notin STYLE_PRESETS =>
          /\ pc \notin {"loop", "retry", "manifest", "ubRead", "ubWrite",
                        "done"}
          /\ ~apiCalled
          /\ ~manifest.written
          /\ EventsOf("image") = {}
          /\ ConfigWrites = 0
    /\ failure.kind = "style" =>
          /\ pc = "failed"
          /\ params.style \notin STYLE_PRESETS
          /\ budgetCheck.allowed
          /\ events = <<Event("mkdir", 3)>>

----------------------------------------------------------------------------
\* C37: among the supported sizes with height >= width, randomizeDimensions
\* returns one whose area is closest to the area of the random draw, and
\* among several equally close ones the first in the order of supported.
C37_ClosestPortraitFirstOnTies ==
    (Randomized /\ HasPortrait(fnArgs.supportedDimensions)) =>
        LET supported == fnArgs.supportedDimensions
            targetArea == fnResult.draw.width * fnResult.draw.height
            portrait == {k \in 1..Len(supported) :
                            supported[k].height >= supported[k].width}
            diff(k) == Abs(supported[k].width * supported[k].height
                             - targetArea)
            closest == {k \in portrait : \A m \in portrait : diff(k) <= diff(m)}
            first == CHOOSE k \in closest : \A m \in closest : k <= m
        IN  fnResult.value = supported[first]

\* two different portrait sizes are equally close to the draw, and the
\* earlier one is returned
C37_Witness ==
    /\ Randomized
    /\ fnResult.draw = Dimension(1, 3)
    /\ fnArgs.supportedDimensions
          = <<Dimension(3, 1), Dimension(1, 2), Dimension(2, 2)>>
    /\ fnResult.value = Dimension(1, 2)

----------------------------------------------------------------------------
(* The command invoked with some of its options omitted *)

Argvs ==
    [count : {Absent, Str("1")}, style : {Absent, Str("anime")},
     output : {Absent, Str("./out")}, format : {Absent, Str("jpg")},
     minSize : {Absent, Size(<<"3", "2">>)},
     maxSize : {Absent, Size(<<"2", "3">>)},
     config : {Absent, Str("./custom-config.yaml")},
     budget : {Absent}, dryRun : {FALSE}, apiKey : {Str("sk-cli")},
     artTest : {FALSE}]

FileWithDefaults ==
    [apiKey |-> Str("sk-key"),
     budget |-> [total |-> Num(3), spent |-> Num(0), warnThreshold |-> 80],
     defaults |-> FileDefaultsSection,
     retry |-> CliRetryPolicy,
     gender |-> [maleRatio |-> 50]]

\* badge-gen [options], up to the return of loadConfig
InvokeInit ==
    /\ params = IdleParams
    /\ disk \in {FileWithDefaults}
                \cup {c \in CliConfigs : c.budget.spent = Num(0)}
    /\ config = NoConfig
    /\ estimatedCost = Num(0)
    /\ budgetCheck = [allowed |-> FALSE, kind |-> "none"]
    /\ pc = "cli"
    /\ failure = NoFailure
    /\ events = <<>>
    /\ apiCalled = FALSE
    /\ i = 0
    /\ results = <<>>
    /\ failed = <<>>
    /\ manifest = NoManifest
    /\ ubConfig = NoConfig
    /\ ubAmount = Num(0)
    /\ p2pc = "none"
    /\ p2Config = NoConfig
    /\ p2Amount = Num(0)
    /\ argv \in Argvs
    /\ options = Commander(argv)
    /\ env = Absent
    /\ otherDisk \in {NoConfig, FileWithDefaults}
    /\ exitCode = 0
    /\ fnArgs = NoCall
    /\ fnResult = NoCall
    /\ rcfg = disk.retry
    /\ RetryIdleInit
    /\ OneRunInit

InvokeNext == CliLoadConfig

InvokeSpec == InvokeInit /\ [][InvokeNext]_vars

\* the value of the file's defaults section for an option, else the
\* hard-coded one
FileOrHardCoded(fileOpt, hardCoded) ==
    IF fileOpt.kind = "undefined" THEN hardCoded
    ELSE IF fileOpt.kind = "number" THEN fileOpt.n.v
    ELSE IF fileOpt.kind = "size" THEN fileOpt.parts
    ELSE fileOpt.s

\* C38: when the command line omits --count, --style, --format, --output,
\* --min-size or --max-size, the GenerationParams that loadConfig returns
\* holds the value of the configuration file's defaults section for it when
\* the file has one, and the hard-coded default otherwise.
\* commander hands the action its own default for an omitted option, so the
\* file's value is never reached.
C38_OmittedOptionsTakeFileDefaults ==
    (argv # NoOptions /\ LoadConfigReturned) =>
        LET defaults == FileDefaults(FileAt(options.config))
        IN  /\ argv.count = Absent =>
                  params.count = FileOrHardCoded(defaults.count, 10)
            /\ argv.style = Absent =>
                  params.style = FileOrHardCoded(defaults.style, "bitmoji")
            /\ argv.format = Absent =>
                  params.format = FileOrHardCoded(defaults.format, "png")
            /\ argv.output = Absent =>
                  params.outputDir
                     = FileOrHardCoded(defaults.outputDir, "./badges")
            /\ argv.minSize = Absent =>
                  params.minSize
                     = FileOrHardCoded(defaults.minSize, <<"900", "800">>)
            /\ argv.maxSize = Absent =>
                  params.maxSize
                     = FileOrHardCoded(defaults.maxSize, <<"2100", "1500">>)

----------------------------------------------------------------------------
(* generateBatch run several times, one run after the other *)

MaxRuns == 3

SeqParams ==
    {p \in Params : /\ p.count >= 1
                    /\ p.style = "bitmoji"
                    /\ p.minSize = <<"900", "800">>}

\* configuration files whose budget.spent is at most budget.total
SeqConfigs ==
    {c \in Configs : /\ c.budget.spent.v <= c.budget.total.v
                     /\ c.retry.maxAttempts = 2
                     /\ c.gender.maleRatio = 50}

SeqInit ==
    /\ params \in SeqParams
    /\ disk \in SeqConfigs
    /\ config = NoConfig
    /\ estimatedCost = Num(0)
    /\ budgetCheck = [allowed |-> FALSE, kind |-> "none"]
    /\ pc = "start"
    /\ failure = NoFailure
    /\ events = <<>>
    /\ apiCalled = FALSE
    /\ i = 0
    /\ results = <<>>
    /\ failed = <<>>
    /\ manifest = NoManifest
    /\ ubConfig = NoConfig
    /\ ubAmount = Num(0)
    /\ p2pc = "none"
    /\ p2Config = NoConfig
    /\ p2Amount = Num(0)
    /\ CliIdleInit
    /\ rcfg = disk.retry
    /\ RetryIdleInit
    /\ OneRunInit

\* generateBatch has returned or rejected and is called again: the locals
\* are new, the configuration file and manifest.json are as the earlier runs
\* left them
NextRun ==
    /\ pc \in {"done", "failed"}
    /\ runs + 1 < MaxRuns
    /\ runs' = runs + 1
    /\ params' \in SeqParams
    /\ config' = NoConfig
    /\ estimatedCost' = Num(0)
    /\ budgetCheck' = [allowed |-> FALSE, kind |-> "none"]
    /\ pc' = "start"
    /\ failure' = NoFailure
    /\ events' = <<>>
    /\ apiCalled' = FALSE
    /\ i' = 0
    /\ results' = <<>>
    /\ failed' = <<>>
    /\ ubConfig' = NoConfig
    /\ ubAmount' = Num(0)
    /\ UNCHANGED <<disk, manifest, p2pc, p2Config, p2Amount, options, argv,
                   p2Run, env, otherDisk, exitCode, fnArgs, fnResult>>
    /\ UNCHANGED retryVars

SeqNext ==
    \/ Next
    \/ NextRun

SeqSpec == SeqInit /\ [][SeqNext]_vars

\* C31: when budget.spent is at most budget.total before the first run,
\* then after any number of runs with count >= 1, one after the other, the
\* budget.spent in the configuration file is still at most budget.total:
\* a run that passed the gate adds at most its estimatedCost, which the gate
\* found to fit.
C31_SpentStaysWithinTotal ==
    /\ ~disk.budget.spent.nan
    /\ disk.budget.spent.v <= disk.budget.total.v
    /\ pc \in {"ubWrite", "done"} =>
          /\ ubAmount.v <= estimatedCost.v
          /\ config.budget.spent.v + estimatedCost.v <= config.budget.total.v
    /\ pc = "done" =>
          disk.budget.spent.v = config.budget.spent.v + ubAmount.v

\* the third run used up what the earlier runs had left of the budget
C31_Witness ==
    /\ runs = 2
    /\ pc = "done"
    /\ ubAmount.v >= 1
    /\ config.budget.spent.v >= 1
    /\ disk.budget.spent = disk.budget.total

----------------------------------------------------------------------------
(* Two generateBatch runs on one configuration file that overlap in time.
   The first run is modelled step by step as above; of the second run the
   steps that read or write the configuration file are modelled, and its
   generation loop, which touches only its own locals and image files, by
   the number of ImageResults it ends with. *)

OverlapParams == {p \in SeqParams : p.count <= 2}
OverlapConfigs == {c \in SeqConfigs : c.budget.total = Num(3)}

\* the second run: config = await loadFullConfig(configPath)
OtherLoadFullConfig ==
    /\ p2pc = "start"
    /\ \E p \in OverlapParams :
          p2Run' = [started |-> TRUE, count |-> p.count, config |-> disk,
                    estimatedCost |-> Num(0),
                    budgetCheck |-> [allowed |-> FALSE, kind |-> "none"],
                    results |-> <<>>]
    /\ p2pc' = "gate"
    /\ UNCHANGED <<params, disk, config, estimatedCost, budgetCheck, pc,
                   failure, events, apiCalled, i, results, failed, manifest,
                   ubConfig, ubAmount, p2Config, p2Amount, options, argv,
                   runs, env, otherDisk, exitCode, fnArgs, fnResult>>
    /\ UNCHANGED retryVars

\* the second run, STEP A: estimateCost, checkBudget, throw when not allowed
OtherBudgetGate ==
    /\ p2pc = "gate"
    /\ LET est == estimateCost(p2Run.count)
           bc == checkBudget(p2Run.config, est)
       IN  /\ p2Run' = [p2Run EXCEPT !.estimatedCost = est,
                                     !.budgetCheck = bc]
           /\ p2pc' = IF GateThrows(bc) THEN "failed" ELSE "loop"
    /\ UNCHANGED <<params, disk, config, estimatedCost, budgetCheck, pc,
                   failure, events, apiCalled, i, results, failed, manifest,
                   ubConfig, ubAmount, p2Config, p2Amount, options, argv,
                   runs, env, otherDisk, exitCode, fnArgs, fnResult>>
    /\ UNCHANGED retryVars

\* the second run, STEP B to STEP F up to the call of updateBudgetSpent:
\* n of its indices end with an ImageResult; actualCost
OtherGenerate ==
    /\ p2pc = "loop"
    /\ \E n \in 0..p2Run.count :
          LET res == [k \in 1..n |-> [index |-> k - 1,
                                      gender |-> GenderOf(k - 1, p2Run.count)]]
          IN  /\ p2Run' = [p2Run EXCEPT !.results = res]
              /\ p2Amount' = ActualCost(res, p2Run.estimatedCost, p2Run.count)
    /\ p2pc' = "ubRead"
    /\ UNCHANGED <<params, disk, config, estimatedCost, budgetCheck, pc,
                   failure, events, apiCalled, i, results, failed, manifest,
                   ubConfig, ubAmount, p2Config, options, argv,
                   runs, env, otherDisk, exitCode, fnArgs, fnResult>>
    /\ UNCHANGED retryVars

\* the second run, updateBudgetSpent: fs.readFile and YAML.parse
OtherBudgetRead ==
    /\ p2pc = "ubRead"
    /\ p2Config' = disk
    /\ p2pc' = "ubWrite"
    /\ UNCHANGED <<params, disk, config, estimatedCost, budgetCheck, pc,
                   failure, events, apiCalled, i, results, failed, manifest,
                   ubConfig, ubAmount, p2Amount, options, argv, runs, p2Run,
                   env, otherDisk, exitCode, fnArgs, fnResult>>
    /\ UNCHANGED retryVars

OverlapInit ==
    /\ params \in OverlapParams
    /\ disk \in OverlapConfigs
    /\ config = NoConfig
    /\ estimatedCost = Num(0)
    /\ budgetCheck = [allowed |-> FALSE, kind |-> "none"]
    /\ pc = "start"
    /\ failure = NoFailure
    /\ events = <<>>
    /\ apiCalled = FALSE
    /\ i = 0
    /\ results = <<>>
    /\ failed = <<>>
    /\ manifest = NoManifest
    /\ ubConfig = NoConfig
    /\ ubAmount = Num(0)
    /\ p2pc = "start"
    /\ p2Config = NoConfig
    /\ p2Amount = Num(0)
    /\ CliIdleInit
    /\ rcfg = disk.retry
    /\ RetryIdleInit
    /\ OneRunInit

OverlapNext ==
    \/ Next
    \/ OtherLoadFullConfig
    \/ OtherBudgetGate
    \/ OtherGenerate
    \/ OtherBudgetRead
    \/ OtherUpdateWrite

OverlapSpec == OverlapInit /\ [][OverlapNext]_vars

\* both runs have ended with their write-back made
BothRunsDone == pc = "done" /\ p2pc = "done"

\* the run that wrote last had read the file after the other run's write
WriteBacksInTurn ==
    IF events[Len(events)].op = "config"
    THEN ubConfig.budget.spent = FAdd(p2Config.budget.spent, p2Amount)
    ELSE p2Config.budget.spent = FAdd(ubConfig.budget.spent, ubAmount)

\* C32: each of two overlapping runs decides its pre-flight gate on the
\* budget.spent it read at its own start, whatever the other run does; when
\* both read the same value and passed, and the write-backs then follow one
\* another with no update lost, the file ends with that value plus both
\* amounts, which can exceed budget.total.
C32_EachGateSeesItsOwnRead ==
    /\ (pc \notin {"start", "gate"} /\ failure.kind # "config") =>
          budgetCheck.allowed
             = (config.budget.total.v - config.budget.spent.v
                  >= params.count * PricePerImage)
    /\ p2pc \notin {"start", "gate"} =>
          p2Run.budgetCheck.allowed
             = (p2Run.config.budget.total.v - p2Run.config.budget.spent.v
                  >= p2Run.count * PricePerImage)
    /\ (/\ BothRunsDone
        /\ config.budget.spent = p2Run.config.budget.spent
        /\ WriteBacksInTurn) =>
          disk.budget.spent.v
             = config.budget.spent.v + ubAmount.v + p2Amount.v

\* both runs passed the gate on the same spent, neither write-back was lost,
\* and the file's spent is above its total
C32_Witness ==
    /\ BothRunsDone
    /\ budgetCheck.allowed
    /\ p2Run.budgetCheck.allowed
    /\ config.budget.spent = p2Run.config.budget.spent
    /\ WriteBacksInTurn
    /\ disk.budget.spent.v > disk.budget.total.v

====
